---- MODULE Spec2Model ----
(***************************************************************************)
(* A model of the JBD journal of lwext4 (src/lwext4/ext4_journal.c):       *)
(* the three-pass replay of the log (jbd_recover) and the live journal     *)
(* (transactions, commit, checkpoint by end-of-write callbacks).           *)
(***************************************************************************)
EXTENDS Integers, Sequences, FiniteSets, TLC

(***************************************************************************)
(* Bounds of the model.                                                    *)
(***************************************************************************)
\* number of in-place block addresses (LBA 1..NumLba; LBA 0 is the superblock)
NumLba == 2
\* longest sequence of record groups laid out in a crash image of the log
MaxItems == 3
\* journal-relative index one past the last log block, replay images
RMaxLen == 16
\* journal-relative index one past the last log block, live journal
JMaxLen == 4
\* the same for a log that holds two transactions with data
JWideLen == 8
\* the same for a small log of arbitrary content
GMaxLen == 4
\* number of transactions alive at a time
MaxTrans == 2
\* largest transaction id the live journal hands out
MaxTid == 3
MaxRevoke == 1
\* number of commits of a session that an I/O error fails
MaxFail == 1
\* number of times per session the dirty bit of a journalled buffer is cleared
MaxClear == 1

(***************************************************************************)
(* Program constants.                                                      *)
(***************************************************************************)
ACTION_SCAN == 0
ACTION_REVOKE == 1
ACTION_RECOVER == 2

EOK == "EOK"
EIO == "EIO"
ENOMEM == "ENOMEM"
EINVAL == "EINVAL"

\* sb.first: the first log block of the journal inode (block 0 holds the sb)
JFirst == 1

Lbas == 1 .. NumLba

(***************************************************************************)
(* Blocks.  A block image is a record; a log record carries the journal    *)
(* magic (type desc, commit, revoke, other), a data block does not.        *)
(* The in-place blocks hold block images too, since replay copies raw      *)
(* journal blocks over them.                                               *)
(***************************************************************************)
NoTags == << >>

Tag(b, last, uuid) == [block |-> b, last |-> last, uuid |-> uuid]

DataBlock(d) == [type |-> "data", seq |-> 0, tags |-> NoTags, lbas |-> << >>, d |-> d]

DescBlock(s, tags) == [type |-> "desc", seq |-> s, tags |-> tags, lbas |-> << >>, d |-> 0]

CommitBlock(s) == [type |-> "commit", seq |-> s, tags |-> NoTags, lbas |-> << >>, d |-> 0]

RevokeBlock(s, lbas) == [type |-> "revoke", seq |-> s, tags |-> NoTags, lbas |-> lbas, d |-> 0]

OtherBlock(s) == [type |-> "other", seq |-> s, tags |-> NoTags, lbas |-> << >>, d |-> 0]

\* what a read past the end of the journal inode returns when it does not fail
OobBlock == DataBlock(-1)

HasMagic(blk) == blk.type # "data"

(***************************************************************************)
(* State.                                                                  *)
(***************************************************************************)
VARIABLES
    log,      \* the log area on disk: journal block index -> block image
    jbd_fs,   \* struct jbd_fs: sb (in memory), dirty, disk (persisted sb)
    fs,       \* the filesystem superblock: in memory and persisted
    cache,    \* the buffer cache: LBA -> struct ext4_buf
    disk,     \* the in-place blocks on disk: LBA -> block image
    rpc,      \* position of jbd_recover: idle, iter, done
    it,       \* locals of the running jbd_iterate_log
    info,     \* struct recover_info
    rret,     \* return value of jbd_recover
    plan,     \* which block-device operation of this run fails
    hist,     \* what the replay did: reads, applied copies, swallowed errors
    journal,  \* struct jbd_journal: counters, the two queues, the block records
    trans,    \* the transactions: handle -> struct jbd_trans
    jst,      \* the journal session: off, on, stopped, hung, fault
    jh,       \* what the session did: in-place writes, log blocks handed out
    tagio     \* a block tag under test: the tag_info, the tag buffer, what came back

rvars == <<rpc, it, info, rret, plan, hist>>

jvars == <<journal, trans, jst, jh>>

tvars == <<tagio>>

vars == <<log, jbd_fs, fs, cache, disk, rpc, it, info, rret, plan, hist,
          journal, trans, jst, jh, tagio>>

(***************************************************************************)
(* On-disk format: sizes (no feature flag set: tag v1, 4-byte block        *)
(* numbers).                                                               *)
(***************************************************************************)
\* jbd_tag_bytes: sizeof(struct jbd_block_tag) - sizeof(uint32_t)
TagBytes == 8
UUID_SIZE == 16
\* sizeof(struct jbd_bhdr)
BhdrSize == 12
\* sb.blocksize of the modelled journal: room for two tags in a descriptor
BlockSize == 44
\* sb.blocksize of a journal with room for one tag in a descriptor
NarrowBlockSize == 36

TagTblSize(blocksize) == blocksize - BhdrSize

(***************************************************************************)
(* Circular log arithmetic.                                                *)
(***************************************************************************)
wrap(sb, v) == IF v >= sb.maxlen THEN v - (sb.maxlen - sb.first) ELSE v

(***************************************************************************)
(* The block device.  A read of a journal block past the end of the        *)
(* journal inode returns a block without magic when it does not fail.      *)
(***************************************************************************)
jbd_block_get(lg, b) == IF b \in DOMAIN lg THEN lg[b] ELSE OobBlock

\* does the operation op of pass pass fail under the plan pl
Fails(pl, fired, op, pass) == ~fired /\ pl.op = op /\ pl.pass = pass

ext4_sb_write(f) == [f EXCEPT !.disk = [recover |-> f.recover, body |-> f.body]]

\* jbd_write_sb: the journal superblock is written when it is dirty
jbd_write_sb(jf) ==
    IF jf.dirty
    THEN [jf EXCEPT !.disk = [start |-> jf.sb.start, sequence |-> jf.sb.sequence],
                    !.dirty = FALSE]
    ELSE jf

\* FINCOM_RECOVER as held by a journalled image of the superblock
SbImageRecover(blk) == blk.type = "data" /\ blk.d > 0

(***************************************************************************)
(* Tag iterator: the tags of a descriptor block that the visitor sees.     *)
(***************************************************************************)
RECURSIVE jbd_iterate_block_table(_, _, _)
jbd_iterate_block_table(tags, i, remain) ==
    IF remain = 0 \/ i > Len(tags) THEN << >>
    ELSE LET t == tags[i]
             bytes == TagBytes + (IF t.uuid THEN UUID_SIZE ELSE 0)
         IN  IF remain - TagBytes < 0 THEN << >>
             ELSE IF t.uuid /\ remain - TagBytes < UUID_SIZE THEN << >>
             ELSE IF t.last THEN <<t>>
             ELSE <<t>> \o jbd_iterate_block_table(tags, i + 1, remain - bytes)

(***************************************************************************)
(* Revoke index.                                                           *)
(***************************************************************************)
NoRevoke == [b \in {} |-> 0]

jbd_revoke_entry_lookup(rv, b) == b \in DOMAIN rv

jbd_add_revoke_block_tags(rv, b, tid) ==
    [x \in DOMAIN rv \cup {b} |-> IF x = b THEN tid ELSE rv[x]]

RECURSIVE jbd_build_revoke_tree(_, _, _, _)
jbd_build_revoke_tree(rv, lbas, i, tid) ==
    IF i > Len(lbas) THEN rv
    ELSE jbd_build_revoke_tree(jbd_add_revoke_block_tags(rv, lbas[i], tid),
                               lbas, i + 1, tid)

\* the test of jbd_replay_block_tags: the copy is suppressed
RevokeSuppresses_le(rv, b, tid) ==
    jbd_revoke_entry_lookup(rv, b) /\ tid <= rv[b]

RevokeSuppresses(rv, b, tid) ==
    jbd_revoke_entry_lookup(rv, b) /\ tid < rv[b]

(***************************************************************************)
(* jbd_replay_block_tags: the visitor of the RECOVER pass.  R carries the  *)
(* state the pass threads through the tags of one descriptor block.        *)
(***************************************************************************)
jbd_replay_block_tags(R, t, tid, rv, lg, pl) ==
    LET tb == R.this_block + 1
        R1 == [R EXCEPT !.this_block = tb,
                        !.hist.visited = @ \cup {[lba |-> t.block, tid |-> tid, jblk |-> tb]}]
    IN  IF RevokeSuppresses(rv, t.block, tid)
        THEN [R1 EXCEPT !.hist.skipped = @ \cup {[lba |-> t.block, tid |-> tid, jblk |-> tb]}]
        ELSE IF Fails(pl, R1.hist.fired, "jget", ACTION_RECOVER)
        THEN [R1 EXCEPT !.hist.fired = TRUE, !.hist.tagerr = TRUE]
        ELSE LET jb == jbd_block_get(lg, tb)
                 R2 == [R1 EXCEPT !.hist.reads = @ \cup {[pass |-> ACTION_RECOVER, blk |-> tb]}]
             IN  IF t.block # 0
                 THEN IF Fails(pl, R2.hist.fired, "tget", ACTION_RECOVER)
                      THEN [R2 EXCEPT !.hist.fired = TRUE, !.hist.tagerr = TRUE]
                      ELSE [R2 EXCEPT !.cache[t.block].data = jb,
                                      !.cache[t.block].dirty = TRUE,
                                      !.hist.applied = @ \cup
                                          {[lba |-> t.block, tid |-> tid, jblk |-> tb]}]
                 ELSE LET f1 == [R2.fs EXCEPT !.body = jb, !.recover = SbImageRecover(jb)]
                      IN  IF Fails(pl, R2.hist.fired, "sbw", ACTION_RECOVER)
                          THEN [R2 EXCEPT !.fs = f1, !.hist.fired = TRUE,
                                          !.hist.tagerr = TRUE]
                          ELSE [R2 EXCEPT !.fs = ext4_sb_write(f1),
                                          !.hist.applied = @ \cup
                                              {[lba |-> t.block, tid |-> tid, jblk |-> tb]}]

RECURSIVE jbd_replay_descriptor_block(_, _, _, _, _, _, _)
jbd_replay_descriptor_block(R, ts, i, tid, rv, lg, pl) ==
    IF i > Len(ts) THEN R
    ELSE jbd_replay_descriptor_block(jbd_replay_block_tags(R, ts[i], tid, rv, lg, pl),
                                     ts, i + 1, tid, rv, lg, pl)

\* jbd_display_block_tags over the tags of one descriptor block
jbd_debug_descriptor_block(this_block, ts) == this_block + Len(ts)

(***************************************************************************)
(* jbd_iterate_log.                                                        *)
(***************************************************************************)
IterInit(sb, action) ==
    [action |-> action, start_trans_id |-> sb.sequence, this_trans_id |-> sb.sequence,
     start_block |-> sb.start, this_block |-> sb.start, r |-> EOK, log_end |-> FALSE]

\* the result of a header whose sequence is not the expected one
SeqMismatch_ok(action) == EOK

SeqMismatch(action) == IF action # ACTION_SCAN THEN EIO ELSE EOK

\* last_trans_id as SCAN records it
ScanLast(this_trans_id, start_trans_id) ==
    IF this_trans_id > start_trans_id THEN this_trans_id - 1 ELSE this_trans_id

\* the end of one loop iteration: advance, wrap, detect the full lap
IterAdvance(I, sb, this_block) ==
    LET nb == wrap(sb, this_block + 1)
    IN  [I EXCEPT !.this_block = nb,
                  !.log_end = @ \/ (nb = I.start_block)]

\* jbd_block_get of the next log record fails under the plan pl
GetFailsAt(pl, h, pass) ==
    /\ Fails(pl, h.fired, "get", pass)
    /\ Cardinality({r \in h.reads : r.pass = pass}) >= pl.at

\* one iteration of the while loop of jbd_iterate_log
IterateLogStep ==
    /\ rpc = "iter"
    /\ ~it.log_end
    /\ it.r = EOK
    /\ LET sb == jbd_fs.sb
           blk == jbd_block_get(log, it.this_block)
           h1 == [hist EXCEPT !.reads = @ \cup {[pass |-> it.action, blk |-> it.this_block]},
                              !.nread[it.action] =
                                  IF @ > sb.maxlen - sb.first THEN @ ELSE @ + 1]
       IN  IF it.action # ACTION_SCAN /\ it.this_trans_id > info.last_trans_id
           THEN /\ it' = [it EXCEPT !.log_end = TRUE]
                /\ UNCHANGED <<info, cache, fs, hist>>
           ELSE IF GetFailsAt(plan, hist, it.action)
           THEN /\ it' = [it EXCEPT !.r = EIO]
                /\ hist' = [hist EXCEPT !.fired = TRUE]
                /\ UNCHANGED <<info, cache, fs>>
           ELSE IF ~HasMagic(blk)
           THEN /\ it' = [it EXCEPT !.log_end = TRUE]
                /\ hist' = h1
                /\ UNCHANGED <<info, cache, fs>>
           ELSE IF blk.seq # it.this_trans_id
           THEN /\ it' = [it EXCEPT !.log_end = TRUE, !.r = SeqMismatch(it.action)]
                /\ hist' = [h1 EXCEPT !.mismatch = @ \cup {it.action}]
                /\ UNCHANGED <<info, cache, fs>>
           ELSE CASE blk.type = "desc" ->
                     LET ts == jbd_iterate_block_table(blk.tags, 1,
                                                       TagTblSize(sb.blocksize))
                     IN  IF it.action = ACTION_RECOVER
                         THEN LET R == jbd_replay_descriptor_block(
                                           [this_block |-> it.this_block, cache |-> cache,
                                            fs |-> fs, hist |-> h1],
                                           ts, 1, it.this_trans_id, info.revoke, log, plan)
                              IN  /\ it' = IterAdvance(it, sb, R.this_block)
                                  /\ cache' = R.cache
                                  /\ fs' = R.fs
                                  /\ hist' = R.hist
                                  /\ UNCHANGED info
                         ELSE /\ it' = IterAdvance(it, sb,
                                           jbd_debug_descriptor_block(it.this_block, ts))
                              /\ hist' = h1
                              /\ UNCHANGED <<info, cache, fs>>
                  [] blk.type = "commit" ->
                     /\ it' = IterAdvance([it EXCEPT !.this_trans_id = @ + 1], sb,
                                          it.this_block)
                     /\ hist' = h1
                     /\ UNCHANGED <<info, cache, fs>>
                  [] blk.type = "revoke" ->
                     /\ it' = IterAdvance(it, sb, it.this_block)
                     /\ info' = IF it.action = ACTION_REVOKE
                                THEN [info EXCEPT
                                        !.this_trans_id = it.this_trans_id,
                                        !.revoke = jbd_build_revoke_tree(
                                                     @, blk.lbas, 1, it.this_trans_id)]
                                ELSE info
                     /\ hist' = h1
                     /\ UNCHANGED <<cache, fs>>
                  [] OTHER ->
                     /\ it' = IterAdvance([it EXCEPT !.log_end = TRUE], sb, it.this_block)
                     /\ hist' = h1
                     /\ UNCHANGED <<info, cache, fs>>
    /\ UNCHANGED <<log, jbd_fs, disk, rpc, rret, plan, jvars, tvars>>

(***************************************************************************)
(* jbd_recover.                                                            *)
(***************************************************************************)
LogIsClean_never(sb) == FALSE

\* the early return of jbd_recover
LogIsClean(sb) == sb.start = 0

RecoverMarkClean_start(jf) == [jf EXCEPT !.dirty = TRUE]

\* a successful replay: the start of the journal is set to 0, the sb is dirty
RecoverMarkClean(jf) == [jf EXCEPT !.sb.start = 0, !.dirty = TRUE]

\* features_incompatible &= ~EXT4_FINCOM_RECOVER
ClearRecover(f) == [f EXCEPT !.recover = FALSE]

jbd_destroy_revoke_tree(inf) == [inf EXCEPT !.revoke = NoRevoke]

\* jbd_recover is called at mount time, before jbd_journal_start or after a crash
RecoverEnter ==
    /\ rpc = "idle"
    /\ jst \in {"off", "crashed"}
    /\ IF LogIsClean(jbd_fs.sb)
       THEN /\ rpc' = "done"
            /\ rret' = EOK
            /\ UNCHANGED <<it, info>>
       ELSE /\ rpc' = "iter"
            /\ it' = IterInit(jbd_fs.sb, ACTION_SCAN)
            /\ info' = [info EXCEPT !.revoke = NoRevoke]
            /\ UNCHANGED rret
    /\ UNCHANGED <<log, jbd_fs, fs, cache, disk, plan, hist, jvars, tvars>>

\* jbd_iterate_log returns; jbd_recover goes on with the next pass or returns
RecoverPassDone ==
    /\ rpc = "iter"
    /\ it.log_end \/ it.r # EOK
    /\ LET info1 == IF it.r = EOK /\ it.action = ACTION_SCAN
                    THEN [info EXCEPT
                            !.start_trans_id = it.start_trans_id,
                            !.last_trans_id = ScanLast(it.this_trans_id, it.start_trans_id)]
                    ELSE info
       IN  IF it.action # ACTION_RECOVER
           THEN IF it.r # EOK
                THEN /\ rpc' = "done"
                     /\ rret' = it.r
                     /\ info' = info1
                     /\ UNCHANGED <<it, jbd_fs, fs, hist>>
                ELSE /\ it' = IterInit(jbd_fs.sb, it.action + 1)
                     /\ info' = info1
                     /\ UNCHANGED <<rpc, rret, jbd_fs, fs, hist>>
           ELSE /\ rpc' = "done"
                /\ info' = jbd_destroy_revoke_tree(info1)
                /\ UNCHANGED it
                /\ IF it.r = EOK
                   THEN /\ jbd_fs' = RecoverMarkClean(jbd_fs)
                        /\ IF Fails(plan, hist.fired, "fsw", ACTION_RECOVER)
                           THEN /\ fs' = ClearRecover(fs)
                                /\ hist' = [hist EXCEPT !.fired = TRUE]
                                /\ rret' = EIO
                           ELSE /\ fs' = ext4_sb_write(ClearRecover(fs))
                                /\ rret' = EOK
                                /\ UNCHANGED hist
                   ELSE /\ rret' = it.r
                        /\ UNCHANGED <<jbd_fs, fs, hist>>
    /\ UNCHANGED <<log, cache, disk, plan, jvars, tvars>>

(***************************************************************************)
(* Crash images of the log: a sequence of record groups laid out in ring   *)
(* order from sb.start, the rest of the log holding blocks without magic.  *)
(***************************************************************************)
\* sb.sequence of the crash images
Seq0 == 7

Kinds == {"W", "U", "R", "X", "O", "S", "M"}

ItemBlocks(k, s, i) ==
    CASE k = "W" -> <<DescBlock(s, <<Tag(1, TRUE, TRUE)>>), DataBlock(2 * i - 1),
                      CommitBlock(s)>>
      [] k = "U" -> <<DescBlock(s, <<Tag(1, TRUE, TRUE)>>), DataBlock(2 * i - 1)>>
      [] k = "R" -> <<RevokeBlock(s, <<1>>), CommitBlock(s)>>
      [] k = "X" -> <<CommitBlock(s + 1)>>
      [] k = "O" -> <<OtherBlock(s)>>
      [] k = "S" -> <<DescBlock(s, <<Tag(0, TRUE, TRUE)>>), DataBlock(2 * i - 1),
                      CommitBlock(s)>>
      [] k = "M" -> <<DescBlock(s, <<Tag(1, FALSE, TRUE), Tag(NumLba, TRUE, FALSE)>>),
                      DataBlock(2 * i - 1), DataBlock(2 * i), CommitBlock(s)>>

ItemCommits(k) == k \in {"W", "R", "S", "M"}

RECURSIVE ImageBlocks(_, _, _)
ImageBlocks(items, i, s) ==
    IF i > Len(items) THEN << >>
    ELSE ItemBlocks(items[i], s, i) \o
         ImageBlocks(items, i + 1, IF ItemCommits(items[i]) THEN s + 1 ELSE s)

Layout(blocks, first, maxlen, start) ==
    [b \in first .. (maxlen - 1) |->
        LET off == (b - start) % (maxlen - first)
        IN  IF off < Len(blocks) THEN blocks[off + 1] ELSE DataBlock(0)]

Images == UNION {[1 .. n -> Kinds] : n \in 0 .. MaxItems}

Starts == {0, RMaxLen - 3}

\* at: the number of log records the pass reads before the operation fails
Plans == {[op |-> "none", pass |-> ACTION_SCAN, at |-> 0]}
         \cup {[op |-> "get", pass |-> p, at |-> n] :
                   p \in {ACTION_SCAN, ACTION_REVOKE, ACTION_RECOVER}, n \in 0 .. 1}
         \cup {[op |-> o, pass |-> ACTION_RECOVER, at |-> 0] :
                   o \in {"jget", "tget", "sbw", "fsw"}}

\* a clean cache buffer without callback
Buf0 == [data |-> DataBlock(0), dirty |-> FALSE, end_write |-> FALSE, arg |-> 0,
         jref |-> FALSE]

\* no block record (a nil pointer); the records of the index carry an LBA of Lbas
NoRec == [lba |-> 0, buf |-> FALSE, trans |-> 0]

\* calloc(1, sizeof(struct jbd_trans)); blocks: the log blocks it was handed
Trans0 == [st |-> "free", trans_id |-> 0, start_iblock |-> 0, alloc_blocks |-> 0,
           data_cnt |-> 0, written_cnt |-> 0, buf_list |-> << >>,
           revoke_list |-> << >>, blocks |-> {}]

Journal0 == [first |-> 0, start |-> 0, last |-> 0, trans_id |-> 0, alloc_trans_id |-> 0,
             trans_queue |-> << >>, cp_queue |-> << >>,
             block_rec |-> {}]

NoJh == [inplace |-> {}, overflow |-> FALSE, badfree |-> FALSE, assert |-> FALSE,
         takeover |-> FALSE,
         commit |-> "none", cpempty |-> FALSE, late |-> FALSE, early |-> FALSE,
         ub |-> "cont", fail |-> 0, rc |-> EOK, nfail |-> 0, nclear |-> 0]

\* no block tag is under test
NoTagIo == [st |-> "idle"]

\* nread: the log records each pass has read, counted up to one lap and one more;
\* expect: the journalled copies that were not yet written in place at the crash
NoHist == [reads |-> {}, visited |-> {}, applied |-> {}, skipped |-> {}, mismatch |-> {},
           tagerr |-> FALSE, fired |-> FALSE, expect |-> {},
           nread |-> [p \in {ACTION_SCAN, ACTION_REVOKE, ACTION_RECOVER} |-> 0]]

RInit ==
    /\ \E start \in Starts, items \in Images :
          /\ log = Layout(ImageBlocks(items, 1, Seq0), JFirst, RMaxLen,
                          IF start = 0 THEN JFirst ELSE start)
          /\ jbd_fs = [sb |-> [start |-> start, sequence |-> Seq0, first |-> JFirst,
                               maxlen |-> RMaxLen, blocksize |-> BlockSize],
                       dirty |-> FALSE,
                       disk |-> [start |-> start, sequence |-> Seq0]]
          /\ \E rec \in (IF start = 0 THEN BOOLEAN ELSE {TRUE}) :
                fs = [recover |-> rec, body |-> DataBlock(0),
                      disk |-> [recover |-> rec, body |-> DataBlock(0)]]
    /\ plan \in Plans
    /\ cache = [b \in Lbas |-> Buf0]
    /\ disk = [b \in Lbas |-> DataBlock(0)]
    /\ rpc = "idle"
    /\ it = IterInit([start |-> 0, sequence |-> 0], ACTION_SCAN)
    /\ info = [start_trans_id |-> 0, last_trans_id |-> 0, this_trans_id |-> 0,
               revoke |-> NoRevoke]
    /\ rret = EOK
    /\ hist = NoHist
    /\ journal = Journal0
    /\ trans = [h \in 1 .. MaxTrans |-> Trans0]
    /\ jst = "off"
    /\ jh = NoJh
    /\ tagio = NoTagIo

\* jbd_put_fs after the replay: the dirty journal superblock is written back
PutFs ==
    /\ rpc = "done"
    /\ rpc' = "put"
    /\ jbd_fs' = jbd_write_sb(jbd_fs)
    /\ UNCHANGED <<log, fs, cache, disk, it, info, rret, plan, hist, jvars, tvars>>

RNext == RecoverEnter \/ IterateLogStep \/ RecoverPassDone \/ PutFs

SpecRecover == RInit /\ [][RNext]_vars

\* the block images of an arbitrary log: any type, sequence and number of tags
RingBlocks ==
    {DataBlock(0), OtherBlock(Seq0), CommitBlock(Seq0), CommitBlock(Seq0 + 1),
     RevokeBlock(Seq0, <<1>>),
     DescBlock(Seq0, <<Tag(1, TRUE, TRUE)>>),
     DescBlock(Seq0, <<Tag(1, FALSE, TRUE), Tag(NumLba, TRUE, FALSE)>>)}

\* a log of GMaxLen - JFirst blocks of any content, replayed from any start
GInit ==
    /\ \E start \in JFirst .. GMaxLen - 1 :
          jbd_fs = [sb |-> [start |-> start, sequence |-> Seq0, first |-> JFirst,
                            maxlen |-> GMaxLen, blocksize |-> BlockSize],
                    dirty |-> FALSE,
                    disk |-> [start |-> start, sequence |-> Seq0]]
    /\ log \in [JFirst .. GMaxLen - 1 -> RingBlocks]
    /\ fs = [recover |-> TRUE, body |-> DataBlock(0),
             disk |-> [recover |-> TRUE, body |-> DataBlock(0)]]
    /\ plan = [op |-> "none", pass |-> ACTION_SCAN, at |-> 0]
    /\ cache = [b \in Lbas |-> Buf0]
    /\ disk = [b \in Lbas |-> DataBlock(0)]
    /\ rpc = "idle"
    /\ it = IterInit([start |-> 0, sequence |-> 0], ACTION_SCAN)
    /\ info = [start_trans_id |-> 0, last_trans_id |-> 0, this_trans_id |-> 0,
               revoke |-> NoRevoke]
    /\ rret = EOK
    /\ hist = NoHist
    /\ journal = Journal0
    /\ trans = [h \in 1 .. MaxTrans |-> Trans0]
    /\ jst = "off"
    /\ jh = NoJh
    /\ tagio = NoTagIo

SpecRing == GInit /\ [][RNext]_vars

(***************************************************************************)
(* Replay: properties.                                                     *)
(***************************************************************************)
ReplayReturned == rpc = "done"

\* a commit block of transaction tid is in the log
CommitPresent(tid) ==
    \E b \in DOMAIN log : log[b].type = "commit" /\ log[b].seq = tid

\* C2: replay atomicity: every journalled copy that the RECOVER pass applied
\* belongs to a transaction whose commit block is in the log.
C2_ReplayAtomicity == \A e \in hist.applied : CommitPresent(e.tid)

\* the k-th block of the log in ring order from the persisted sb.start
RingAt(k) ==
    LET sb == jbd_fs.sb
    IN  sb.first + ((jbd_fs.disk.start - sb.first + k - 1) % (sb.maxlen - sb.first))

\* C3: revoke precedence: in the RECOVER pass a visited tag is suppressed iff the
\* revoke index has an entry for its block with a larger transaction id, a
\* suppressed copy is never written, a tag that is not suppressed is applied
\* unless the device failed; and in a log where a transaction writes B, the
\* next revokes B and the next writes B again, B ends with the last copy.
C3_RevokePrecedence ==
    /\ (rpc = "iter" /\ it.action = ACTION_RECOVER) =>
          \A v \in hist.visited :
             /\ (v \in hist.skipped) <=>
                   (v.lba \in DOMAIN info.revoke /\ v.tid < info.revoke[v.lba])
             /\ (v \notin hist.skipped /\ ~hist.tagerr) => v \in hist.applied
    /\ hist.applied \cap hist.skipped = {}
    /\ (/\ ReplayReturned /\ rret = EOK /\ ~hist.fired
        /\ jbd_fs.disk.start # 0
        /\ [k \in 1 .. 9 |-> IF k \in {2, 7} THEN DataBlock(0) ELSE log[RingAt(k)]] =
              <<DescBlock(Seq0, <<Tag(1, TRUE, TRUE)>>), DataBlock(0), CommitBlock(Seq0),
                RevokeBlock(Seq0 + 1, <<1>>), CommitBlock(Seq0 + 1),
                DescBlock(Seq0 + 2, <<Tag(1, TRUE, TRUE)>>), DataBlock(0),
                CommitBlock(Seq0 + 2), DataBlock(0)>>)
       => /\ cache[1].data = log[RingAt(7)]
          /\ \A e \in hist.applied : e.lba = 1 => e.tid = Seq0 + 2

C3_Witness ==
    /\ ReplayReturned
    /\ rret = EOK
    /\ \E v \in hist.skipped : \E e \in hist.applied :
          /\ e.lba = v.lba
          /\ v.tid = Seq0
          /\ e.tid = Seq0 + 2
          /\ cache[e.lba].data = log[e.jblk]

C5_CleanLogNoop ==
    [][(rpc = "idle" /\ jbd_fs.sb.start = 0) =>
          /\ rpc' = "done"
          /\ rret' = EOK
          /\ UNCHANGED <<log, jbd_fs, fs, cache, disk, hist>>]_vars

C5_Witness ==
    /\ ReplayReturned
    /\ rret = EOK
    /\ jbd_fs.sb.start = 0
    /\ jbd_fs.disk.start = 0
    /\ hist.reads = {}
    /\ log[JFirst].type = "desc"

\* C6: an I/O error while replaying a tag makes jbd_recover return the error and
\* leaves the log marked as not clean.
C6_ReplayErrorsSurfaced ==
    (ReplayReturned /\ hist.tagerr) =>
       /\ rret # EOK
       /\ jbd_fs.sb.start # 0
       /\ fs.recover

\* C7: a log block with the magic and an unexpected sequence ends the log in the
\* SCAN pass, which returns EOK; in the REVOKE and RECOVER passes it makes the
\* pass, and jbd_recover, return EIO, and then sb.start is still non-zero and
\* FINCOM_RECOVER still set, in memory and on disk.
C7_SeqMismatch ==
    /\ (rpc = "iter" /\ it.action \in hist.mismatch) =>
          /\ it.log_end
          /\ it.r = IF it.action = ACTION_SCAN THEN EOK ELSE EIO
    /\ (ReplayReturned /\ hist.mismatch \ {ACTION_SCAN} # {}) =>
          /\ rret = EIO
          /\ jbd_fs.sb.start # 0
          /\ ~jbd_fs.dirty
          /\ fs.recover
          /\ fs.disk.recover
    /\ (ReplayReturned /\ hist.mismatch # {} /\ ~hist.fired) =>
          ACTION_SCAN \in hist.mismatch

C7_Witness ==
    /\ ReplayReturned
    /\ rret = EIO
    /\ hist.mismatch = {ACTION_SCAN, ACTION_REVOKE}
    /\ ~hist.fired
    /\ jbd_fs.sb.start # 0

(***************************************************************************)
(* The live journal.  The operators below take and return the state S of   *)
(* the journal, the cache and the disk, as one handler threads it through  *)
(* the functions it calls.  S.jst leaves "on" when the handler cannot go   *)
(* on: a loop that no longer makes progress (hung) or a fault.             *)
(***************************************************************************)
Live == [journal |-> journal, trans |-> trans, cache |-> cache, disk |-> disk,
         log |-> log, jbd_fs |-> jbd_fs, fs |-> fs, jst |-> jst, jh |-> jh]

Install(S) ==
    /\ journal' = S.journal
    /\ trans' = S.trans
    /\ cache' = S.cache
    /\ disk' = S.disk
    /\ log' = S.log
    /\ jbd_fs' = S.jbd_fs
    /\ fs' = S.fs
    /\ jst' = S.jst
    /\ jh' = S.jh

Remove(q, x) == SelectSeq(q, LAMBDA y : y # x)

\* TAILQ_FIRST, 0 for an empty queue
First(q) == IF q = << >> THEN 0 ELSE Head(q)

jbd_journal_write_sb(S) ==
    [S EXCEPT !.jbd_fs.sb.start = S.journal.start,
              !.jbd_fs.sb.sequence = S.journal.trans_id,
              !.jbd_fs.dirty = TRUE]

\* RB_FIND on the block-record index: a record with the LBA, nil when there is none
jbd_trans_block_rec_lookup(J, b) ==
    IF \E r \in J.block_rec : r.lba = b
    THEN CHOOSE r \in J.block_rec : r.lba = b
    ELSE NoRec

\* the record is freed when it still belongs to the transaction of the jbd_buf
jbd_trans_remove_block_rec(S, h, b) ==
    IF jbd_trans_block_rec_lookup(S.journal, b) # NoRec
       /\ jbd_trans_block_rec_lookup(S.journal, b).trans = h
    THEN [S EXCEPT !.journal.block_rec = @ \ {jbd_trans_block_rec_lookup(S.journal, b)}]
    ELSE S

\* jbd_buf->block_rec->buf = NULL
BlockRecClearBuf(J, b) ==
    IF jbd_trans_block_rec_lookup(J, b) = NoRec THEN J.block_rec
    ELSE (J.block_rec \ {jbd_trans_block_rec_lookup(J, b)})
         \cup {[jbd_trans_block_rec_lookup(J, b) EXCEPT !.buf = FALSE]}

\* the buffers of the list of a transaction, one jbd_buf after the other
RECURSIVE FreeBufs(_, _, _, _)
FreeBufs(S, h, bufs, abort) ==
    IF bufs = << >> THEN S
    ELSE LET b == Head(bufs)
             S1 == IF abort
                   THEN [S EXCEPT !.cache[b].end_write = FALSE, !.cache[b].arg = 0,
                                  !.cache[b].dirty = FALSE, !.cache[b].jref = FALSE]
                   ELSE S
         IN  FreeBufs(jbd_trans_remove_block_rec(S1, h, b), h, Tail(bufs), abort)

jbd_journal_free_trans(S, h, abort) ==
    LET S1 == FreeBufs(S, h, S.trans[h].buf_list, abort)
    IN  [S1 EXCEPT !.trans[h] = Trans0]

jbd_journal_skip_pure_revoke(S, h) ==
    LET T == S.trans[h]
        S1 == [S EXCEPT !.journal.start = wrap(S.jbd_fs.sb, T.start_iblock + T.alloc_blocks),
                        !.journal.trans_id = T.trans_id + 1]
    IN  jbd_journal_write_sb(jbd_journal_free_trans(S1, h, FALSE))

\* the loop of jbd_trans_end_write over the head of the checkpoint queue
RECURSIVE DrainPureRevoke(_)
DrainPureRevoke(S) ==
    LET h == First(S.journal.cp_queue)
    IN  IF h = 0 THEN S
        ELSE IF S.trans[h].data_cnt = 0
        THEN DrainPureRevoke(jbd_journal_skip_pure_revoke(
                 [S EXCEPT !.journal.cp_queue = Tail(@)], h))
        ELSE [S EXCEPT !.journal.start = wrap(S.jbd_fs.sb, S.trans[h].start_iblock),
                       !.journal.trans_id = S.trans[h].trans_id]

AllWritten_once(T) == T.written_cnt >= 1

\* the checkpoint is complete
AllWritten(T) == T.written_cnt = T.data_cnt

\* jbd_write_sb on the journal of the state
\* jh.early: the superblock reaches the disk in a commit that met an empty checkpoint
\* queue, before the commit block
SyncJournalSb(S) ==
    [S EXCEPT !.jbd_fs = jbd_write_sb(@),
              !.jh.early = @ \/ (S.jh.commit = "open" /\ S.jh.cpempty /\ S.jbd_fs.dirty)]

\* jbd_trans_end_write, all buffers written: the transaction leaves the queue, is freed
EndWriteFree(S, h, first_in_queue) ==
    jbd_journal_free_trans(
        [S EXCEPT !.journal.cp_queue = Remove(@, h),
                  !.journal.trans_queue = Remove(@, h),
                  !.jh.badfree = @ \/ (S.trans[h].st # "cp"),
                  !.jst = IF S.trans[h].st # "cp" THEN "undefined" ELSE @,
                  !.journal.start =
                      IF first_in_queue
                      THEN wrap(S.jbd_fs.sb,
                                S.trans[h].start_iblock + S.trans[h].alloc_blocks)
                      ELSE @,
                  !.journal.trans_id =
                      IF first_in_queue THEN S.trans[h].trans_id + 1 ELSE @],
        h, FALSE)

\* jbd_trans_end_write from the test of written_cnt; TAILQ_REMOVE of a transaction
\* that is not on the checkpoint queue is undefined: the build faults, or it carries
\* on with queues nothing can be said about any more
EndWriteComplete(S, h, first_in_queue) ==
    IF ~AllWritten(S.trans[h]) THEN S
    ELSE IF S.trans[h].st # "cp" /\ S.jh.ub = "fault"
    THEN [S EXCEPT !.jst = "fault", !.jh.badfree = TRUE]
    ELSE IF first_in_queue
    THEN SyncJournalSb(jbd_journal_write_sb(DrainPureRevoke(EndWriteFree(S, h, TRUE))))
    ELSE EndWriteFree(S, h, FALSE)

EndWriteUnlink_keep(S, h, b) ==
    [S EXCEPT !.trans[h].buf_list = Remove(@, b),
              !.trans[h].written_cnt = @ + 1]

\* the jbd_buf is unlinked and freed, the callback cleared, written_cnt counted
EndWriteUnlink(S, h, b) ==
    [jbd_trans_remove_block_rec(
         [S EXCEPT !.trans[h].buf_list = Remove(@, b),
                   !.journal.block_rec = BlockRecClearBuf(S.journal, b)], h, b)
       EXCEPT !.cache[b].end_write = FALSE,
              !.cache[b].arg = 0,
              !.trans[h].written_cnt = @ + 1]

\* jbd_trans_end_write: the in-place write of the buffer of LBA b completed
jbd_trans_end_write(S, b) ==
    EndWriteComplete(EndWriteUnlink(S, S.cache[b].arg, b), S.cache[b].arg,
                     First(S.journal.cp_queue) = S.cache[b].arg)

\* the data of the buffer reaches its place on the disk
WriteInPlace(S, b) ==
    [S EXCEPT !.disk[b] = S.cache[b].data,
              !.cache[b].dirty = FALSE,
              !.jh.inplace = @ \cup
                  {[lba |-> b,
                    st |-> IF S.cache[b].end_write THEN S.trans[S.cache[b].arg].st
                           ELSE "none"]}]

\* ext4_block_flush_buf: a dirty buffer is written in place, then its callback runs
ext4_block_flush_buf(S, b) ==
    IF ~S.cache[b].dirty THEN S
    ELSE IF S.cache[b].end_write THEN jbd_trans_end_write(WriteInPlace(S, b), b)
    ELSE WriteInPlace(S, b)

\* jbd_journal_flush_trans: LIST_FOREACH_SAFE over the buffers of the transaction
RECURSIVE FlushBufs(_, _)
FlushBufs(S, bufs) ==
    IF bufs = << >> \/ S.jst # "on" THEN S
    ELSE FlushBufs(ext4_block_flush_buf(S, Head(bufs)), Tail(bufs))

jbd_journal_flush_trans(S, h) == FlushBufs(S, S.trans[h].buf_list)

jbd_journal_flush_all_trans_none(S) == S

RECURSIVE jbd_journal_flush_all_trans(_)
\* one turn of the loop: a turn that changes nothing repeats for ever
FlushAllTurn(S, S1) ==
    IF S1 = S THEN [S EXCEPT !.jst = "hung"] ELSE jbd_journal_flush_all_trans(S1)

jbd_journal_flush_all_trans(S) ==
    IF First(S.journal.cp_queue) = 0 \/ S.jst # "on" THEN S
    ELSE IF S.trans[First(S.journal.cp_queue)].data_cnt = 0
    THEN jbd_journal_flush_all_trans(jbd_journal_skip_pure_revoke(
             [S EXCEPT !.journal.cp_queue = Tail(@)], First(S.journal.cp_queue)))
    ELSE FlushAllTurn(S, jbd_journal_flush_trans(S, First(S.journal.cp_queue)))

(***************************************************************************)
(* Commit: log allocation, descriptor, data, revoke and commit blocks.     *)
(***************************************************************************)
\* the log blocks of the checkpoint transactions that still have unwritten buffers
CpBlocks(S) ==
    UNION {IF S.trans[S.journal.cp_queue[i]].buf_list # << >>
           THEN S.trans[S.journal.cp_queue[i]].blocks ELSE {} :
           i \in 1 .. Len(S.journal.cp_queue)}

\* the test of jbd_journal_alloc_block: no space left
LogFull(J) == J.last = J.start

\* journal->last++, alloc_blocks++, wrap; the block handed out is the old last
AllocAdvance(S, h) ==
    [S EXCEPT !.journal.last = wrap(S.jbd_fs.sb, S.journal.last + 1),
              !.trans[h].alloc_blocks = @ + 1,
              !.trans[h].blocks = @ \cup {S.journal.last},
              !.jh.overflow =
                  @ \/ S.journal.last \in (CpBlocks(S) \cup S.trans[h].blocks)]

AllocReclaim(S) == IF LogFull(S.journal) THEN jbd_journal_flush_all_trans(S) ELSE S

\* jbd_journal_alloc_block: the block handed out is S.journal.last before the call
jbd_journal_alloc_block(S, h) == AllocReclaim(AllocAdvance(S, h))

\* jbd_block_get_noread of a journal block: the jh.fail-th call of the handler fails
GetFails(S) == S.jh.fail = 1

jbd_block_get_noread(S) == [S EXCEPT !.jh.fail = IF @ > 0 THEN @ - 1 ELSE 0]

\* jbd_block_set of a dirty BC_FLUSH buffer: the block is written to the log
\* jh.late: a block is written after the commit block of the commit in progress
jbd_block_set(S, blk, image) ==
    [S EXCEPT !.log[blk] = image, !.jh.late = @ \/ S.jh.commit = "sealed"]

\* jbd_write_block_tag returns EINVAL
TagOverrun(size, uuid_exist) ==
    \/ size - TagBytes < 0
    \/ uuid_exist /\ size - TagBytes < UUID_SIZE

\* tag_info.last_tag as jbd_journal_prepare sets it
IsLastTag(i, T) == i = T.data_cnt - 1

PrepLocals == [desc |-> 0, tags |-> << >>, size |-> 0, i |-> 0, rc |-> EOK]

\* the state and the locals of a loop of the commit
PL(S, L) == [S |-> S, L |-> L]

RECURSIVE PrepareAgain(_, _, _, _)
\* jbd_journal_prepare after the allocation of the descriptor block blk
PrepareDesc(S1, L, h, b, blk) ==
    IF S1.jst # "on" THEN PL(S1, L)
    ELSE IF GetFails(S1)
    THEN PL(jbd_block_get_noread(S1), [L EXCEPT !.desc = blk, !.rc = EIO])
    ELSE PrepareAgain(
           PL([jbd_block_get_noread(S1) EXCEPT
                 !.trans[h].start_iblock = IF @ = 0 THEN blk ELSE @],
              [L EXCEPT !.desc = blk, !.tags = << >>,
                        !.size = TagTblSize(S1.jbd_fs.sb.blocksize)]),
           h, b, TRUE)

\* jbd_journal_prepare after the allocation of the data block dblk
PrepareData(S1, L, b, dblk, uuid_exist) ==
    IF S1.jst # "on" THEN PL(S1, L)
    ELSE IF GetFails(S1)
    THEN PL(jbd_block_get_noread(S1), [L EXCEPT !.rc = EIO])
    ELSE PL(jbd_block_set(jbd_block_get_noread(S1), dblk, S1.cache[b].data),
            [L EXCEPT !.size = @ - (TagBytes + IF uuid_exist THEN UUID_SIZE ELSE 0),
                      !.i = @ + 1])

\* the body of the loop of jbd_journal_prepare from the label again
PrepareAgain(P, h, b, uuid_exist) ==
    IF P.L.desc = 0
    THEN PrepareDesc(jbd_journal_alloc_block(P.S, h), P.L, h, b, P.S.journal.last)
    ELSE IF TagOverrun(P.L.size, uuid_exist)
    THEN PrepareAgain(
           PL(jbd_block_set(P.S, P.L.desc, DescBlock(P.S.trans[h].trans_id, P.L.tags)),
              [P.L EXCEPT !.desc = 0]),
           h, b, uuid_exist)
    ELSE PrepareData(jbd_journal_alloc_block(P.S, h),
                     [P.L EXCEPT !.tags =
                          Append(@, Tag(b, IsLastTag(P.L.i, P.S.trans[h]), uuid_exist))],
                     b, P.S.journal.last, uuid_exist)

\* a buffer that is not dirty is released and leaves the list
PrepareSkip(S, h, b) ==
    [S EXCEPT !.cache[b].end_write = FALSE,
              !.cache[b].arg = 0,
              !.cache[b].jref = FALSE,
              !.trans[h].buf_list = Remove(@, b)]

RECURSIVE PrepareLoop(_, _, _)
PrepareLoop(P, h, bufs) ==
    IF bufs = << >> \/ P.S.jst # "on" \/ P.L.rc # EOK THEN P
    ELSE IF ~P.S.cache[Head(bufs)].dirty
    THEN PrepareLoop(PL(PrepareSkip(P.S, h, Head(bufs)), P.L), h, Tail(bufs))
    ELSE PrepareLoop(PrepareAgain(P, h, Head(bufs), FALSE), h, Tail(bufs))

\* the descriptor block in progress is written when the loop ended without error
PrepareEnd(P, h) ==
    IF P.S.jst = "on" /\ P.L.rc = EOK /\ P.L.desc # 0
    THEN PL(jbd_block_set(P.S, P.L.desc, DescBlock(P.S.trans[h].trans_id, P.L.tags)), P.L)
    ELSE P

\* jbd_journal_prepare; the result is [S, L], L.rc the return value
jbd_journal_prepare(S, h) ==
    PrepareEnd(PrepareLoop(PL(S, PrepLocals), h, S.trans[h].buf_list), h)

\* sizeof(struct jbd_revoke_header)
RevokeHdrSize == 16
\* the size of a revoke record without JBD_FEATURE_INCOMPAT_64BIT
RecordLen == 4

RECURSIVE RevokeLoop(_, _, _)
\* jbd_journal_prepare_revoke after the allocation of the revoke block blk
RevokeDesc(S1, L, h, recs, blk) ==
    IF S1.jst # "on" THEN PL(S1, L)
    ELSE IF GetFails(S1)
    THEN PL(jbd_block_get_noread(S1), [L EXCEPT !.desc = blk, !.rc = EIO])
    ELSE RevokeLoop(
           PL([jbd_block_get_noread(S1) EXCEPT
                 !.trans[h].start_iblock = IF @ = 0 THEN blk ELSE @],
              [L EXCEPT !.desc = blk, !.tags = << >>,
                        !.size = S1.jbd_fs.sb.blocksize - RevokeHdrSize]),
           h, recs)

RevokeLoop(P, h, recs) ==
    IF recs = << >> \/ P.S.jst # "on" \/ P.L.rc # EOK THEN P
    ELSE IF P.L.desc = 0
    THEN RevokeDesc(jbd_journal_alloc_block(P.S, h), P.L, h, recs, P.S.journal.last)
    ELSE IF P.L.size < RecordLen
    THEN RevokeLoop(
           PL(jbd_block_set(P.S, P.L.desc, RevokeBlock(P.S.trans[h].trans_id, P.L.tags)),
              [P.L EXCEPT !.desc = 0]),
           h, recs)
    ELSE RevokeLoop(
           PL(P.S, [P.L EXCEPT !.tags = Append(@, Head(recs)),
                               !.size = @ - RecordLen, !.i = @ + 1]),
           h, Tail(recs))

RevokeEnd(P, h) ==
    IF P.S.jst = "on" /\ P.L.rc = EOK /\ P.L.desc # 0
    THEN PL(jbd_block_set(P.S, P.L.desc, RevokeBlock(P.S.trans[h].trans_id, P.L.tags)),
            P.L)
    ELSE P

jbd_journal_prepare_revoke(S, h) ==
    RevokeEnd(RevokeLoop(PL(S, PrepLocals), h, S.trans[h].revoke_list), h)

\* jbd_trans_write_commit_block after the allocation of the block blk
CommitBlockWrite(S1, h, blk) ==
    IF S1.jst # "on" THEN [S |-> S1, rc |-> EOK]
    ELSE IF GetFails(S1) THEN [S |-> jbd_block_get_noread(S1), rc |-> EIO]
    ELSE [S |-> [jbd_block_set(jbd_block_get_noread(S1), blk,
                               CommitBlock(S1.trans[h].trans_id))
                   EXCEPT !.jh.commit = "sealed"],
          rc |-> EOK]

\* jbd_trans_write_commit_block; the result is [S, rc]
jbd_trans_write_commit_block(S, h) ==
    CommitBlockWrite(jbd_journal_alloc_block(S, h), h, S.journal.last)

\* jbd_journal_cp_trans: the references of the journal on the buffers are put
RECURSIVE PutBufs(_, _)
PutBufs(S, bufs) ==
    IF bufs = << >> THEN S
    ELSE PutBufs([S EXCEPT !.cache[Head(bufs)].jref = FALSE], Tail(bufs))

jbd_journal_cp_trans(S, h) == PutBufs(S, S.trans[h].buf_list)

CpInsert_head(S, h) ==
    [S EXCEPT !.journal.cp_queue = <<h>> \o @, !.trans[h].st = "cp"]

\* TAILQ_INSERT_TAIL on the checkpoint queue
CpInsert(S, h) ==
    [S EXCEPT !.journal.cp_queue = Append(@, h), !.trans[h].st = "cp"]

CommitStart_past(sb, T) == wrap(sb, T.start_iblock + T.alloc_blocks)

\* journal->start of a transaction with data that enters an empty checkpoint queue
CommitStart(sb, T) == wrap(sb, T.start_iblock)

PureRevokeStart_first(sb, T) == wrap(sb, T.start_iblock)

\* journal->start after a pure-revoke transaction committed with an empty checkpoint queue
PureRevokeStart(sb, T) == wrap(sb, T.start_iblock + T.alloc_blocks)

\* the tail of jbd_journal_commit_trans, once the commit block is written
CommitDone(S, h) ==
    IF S.journal.cp_queue = << >>
    THEN IF S.trans[h].data_cnt # 0
         THEN jbd_journal_cp_trans(
                CpInsert(SyncJournalSb(jbd_journal_write_sb(
                    [S EXCEPT !.journal.alloc_trans_id = @ + 1,
                              !.journal.start = CommitStart(S.jbd_fs.sb, S.trans[h]),
                              !.journal.trans_id = S.trans[h].trans_id])), h), h)
         ELSE jbd_journal_free_trans(
                jbd_journal_write_sb(
                    [S EXCEPT !.journal.alloc_trans_id = @ + 1,
                              !.journal.start = PureRevokeStart(S.jbd_fs.sb, S.trans[h]),
                              !.journal.trans_id = S.trans[h].trans_id + 1]), h, FALSE)
    ELSE IF S.trans[h].data_cnt # 0
    THEN jbd_journal_cp_trans(
             CpInsert([S EXCEPT !.journal.alloc_trans_id = @ + 1], h), h)
    ELSE CpInsert([S EXCEPT !.journal.alloc_trans_id = @ + 1], h)

\* Finish: a failed commit rewinds journal.last and aborts the transaction
CommitFinish(S, h, rc, last) ==
    IF S.jst # "on" THEN S
    ELSE IF rc # EOK
    THEN [jbd_journal_free_trans([S EXCEPT !.journal.last = last], h, TRUE)
            EXCEPT !.jh.rc = rc, !.jh.commit = "none"]
    ELSE [S EXCEPT !.jh.rc = rc,
                   !.jh.commit = IF @ = "sealed" THEN "done" ELSE "none"]

\* jbd_journal_commit_trans from the call of jbd_trans_write_commit_block
CommitAfterBlock(C, h, last) ==
    IF C.S.jst # "on" \/ C.rc # EOK THEN CommitFinish(C.S, h, C.rc, last)
    ELSE CommitFinish(CommitDone(C.S, h), h, EOK, last)

\* jbd_journal_commit_trans from the return of jbd_journal_prepare_revoke
CommitAfterRevoke(P, h, last) ==
    IF P.S.jst # "on" \/ P.L.rc # EOK THEN CommitFinish(P.S, h, P.L.rc, last)
    ELSE IF P.S.trans[h].buf_list = << >> /\ P.S.trans[h].revoke_list = << >>
    THEN CommitFinish(jbd_journal_free_trans(P.S, h, FALSE), h, EOK, last)
    ELSE CommitAfterBlock(jbd_trans_write_commit_block(P.S, h), h, last)

CommitAfterPrepare_sealed(P, h, last) ==
    IF P.S.jst # "on" \/ P.L.rc # EOK THEN CommitFinish(P.S, h, P.L.rc, last)
    ELSE CommitAfterRevoke(
             jbd_journal_prepare_revoke(jbd_trans_write_commit_block(P.S, h).S, h),
             h, last)

\* jbd_journal_commit_trans from the return of jbd_journal_prepare
CommitAfterPrepare(P, h, last) ==
    IF P.S.jst # "on" \/ P.L.rc # EOK THEN CommitFinish(P.S, h, P.L.rc, last)
    ELSE CommitAfterRevoke(jbd_journal_prepare_revoke(P.S, h), h, last)

\* jbd_journal_commit_trans
jbd_journal_commit_trans(S, h) ==
    CommitAfterPrepare(
        jbd_journal_prepare(
            [S EXCEPT !.trans[h].trans_id = S.journal.alloc_trans_id,
                      !.jh.commit = "open",
                      !.jh.cpempty = S.journal.cp_queue = << >>], h),
        h, S.journal.last)

(***************************************************************************)
(* The journal API as actions; every handler runs to its return.           *)
(***************************************************************************)
\* the outcomes of undefined behaviour: the build faults or carries on
UbOutcomes == {"fault", "cont"}

\* entry of a handler: the per-call records are cleared, the inputs fixed
Begin(ub, fail) ==
    [Live EXCEPT !.jh = [NoJh EXCEPT !.ub = ub, !.fail = fail, !.nfail = jh.nfail,
                                     !.nclear = jh.nclear]]

\* return of a handler
Return(S) ==
    Install([S EXCEPT !.jh.ub = "cont", !.jh.fail = 0,
                      !.jh.nfail = IF S.jh.rc # EOK THEN @ + 1 ELSE @])

JournalStartInit_unwritten(S) ==
    [S EXCEPT !.journal = [Journal0 EXCEPT
                             !.first = S.jbd_fs.sb.first,
                             !.start = S.jbd_fs.sb.first,
                             !.last = S.jbd_fs.sb.first,
                             !.trans_id = 1,
                             !.alloc_trans_id = 1],
              !.jst = "on"]

\* jbd_journal_start from the successful write of the filesystem superblock
JournalStartInit(S) ==
    SyncJournalSb(jbd_journal_write_sb(
        [S EXCEPT !.journal = [Journal0 EXCEPT
                                 !.first = S.jbd_fs.sb.first,
                                 !.start = S.jbd_fs.sb.first,
                                 !.last = S.jbd_fs.sb.first,
                                 !.trans_id = 1,
                                 !.alloc_trans_id = 1],
                  !.jst = "on"]))

\* jbd_journal_start; sbfail: ext4_sb_write fails
jbd_journal_start(S, sbfail) ==
    IF sbfail
    THEN [S EXCEPT !.fs.recover = TRUE, !.jh.rc = EIO]
    ELSE JournalStartInit([S EXCEPT !.fs = ext4_sb_write([@ EXCEPT !.recover = TRUE])])

JournalStart(sbfail) ==
    /\ rpc = "idle"
    /\ jst = "off"
    /\ sbfail => jh.nfail < MaxFail
    /\ Return(jbd_journal_start(Begin("cont", 0), sbfail))
    /\ UNCHANGED <<rvars, tvars>>

\* jbd_journal_new_trans; the caller builds one transaction at a time
NewTrans(h) ==
    /\ jst = "on"
    /\ trans[h].st = "free"
    /\ \A g \in 1 .. h - 1 : trans[g].st # "free"
    /\ \A g \in 1 .. MaxTrans : trans[g].st # "new"
    /\ Return([Begin("cont", 0) EXCEPT !.trans[h] = [Trans0 EXCEPT !.st = "new"]])
    /\ UNCHANGED <<rvars, tvars>>

DirtyElsewhere_never(c, h) == FALSE

\* the buffer is dirty in a transaction other than h
DirtyElsewhere(c, h) == c.dirty /\ c.end_write /\ c.arg # h

\* jbd_trans_get_access
jbd_trans_get_access(S, h, b) ==
    IF DirtyElsewhere(S.cache[b], h) THEN ext4_block_flush_buf(S, b) ELSE S

GetAccess(h, b, ub) ==
    /\ jst = "on"
    /\ trans[h].st = "new"
    /\ Return(jbd_trans_get_access(Begin(ub, 0), h, b))
    /\ UNCHANGED <<rvars, tvars>>

BlockRecFound_never(rec) == FALSE

\* the test of jbd_trans_insert_block_rec on the result of the lookup
BlockRecFound(rec) == rec # NoRec

\* jbd_trans_insert_block_rec; the assertion fails when the record has a buffer
jbd_trans_insert_block_rec(S, h, b) ==
    LET rec == jbd_trans_block_rec_lookup(S.journal, b)
    IN  IF BlockRecFound(rec)
        THEN IF rec.buf /\ S.jh.ub = "fault"
             THEN [S EXCEPT !.jst = "fault", !.jh.assert = TRUE]
             ELSE [S EXCEPT !.journal.block_rec =
                                (@ \ {rec}) \cup {[rec EXCEPT !.trans = h]},
                            !.jh.assert = rec.buf,
                            !.jh.takeover = TRUE]
        ELSE [S EXCEPT !.journal.block_rec =
                           @ \cup {[lba |-> b, buf |-> TRUE, trans |-> h]}]

NotYetJournalled_always(c) == TRUE

\* the test of jbd_trans_set_block_dirty: the buffer is clean and has no journal callback
NotYetJournalled(c) == ~c.dirty /\ ~c.end_write

\* jbd_trans_set_block_dirty, after the caller changed the data of the buffer
jbd_trans_set_block_dirty(S, h, b) ==
    IF NotYetJournalled(S.cache[b])
    THEN LET S1 == jbd_trans_insert_block_rec(S, h, b)
         IN  IF S1.jst # "on" THEN S1
             ELSE [S1 EXCEPT !.cache[b].jref = TRUE,
                             !.cache[b].end_write = TRUE,
                             !.cache[b].arg = h,
                             !.cache[b].dirty = TRUE,
                             !.trans[h].data_cnt = @ + 1,
                             !.trans[h].buf_list = <<b>> \o @]
    ELSE S

SetBlockDirty(h, b, ub) ==
    /\ jst = "on"
    /\ trans[h].st = "new"
    /\ Return(jbd_trans_set_block_dirty(
                [Begin(ub, 0) EXCEPT !.cache[b].data = DataBlock(1)], h, b))
    /\ UNCHANGED <<rvars, tvars>>

\* jbd_trans_revoke_block
jbd_trans_revoke_block(S, h, b) == [S EXCEPT !.trans[h].revoke_list = <<b>> \o @]

TransRevokeBlock(h, b) ==
    /\ jst = "on"
    /\ trans[h].st = "new"
    /\ Len(trans[h].revoke_list) < MaxRevoke
    /\ Return(jbd_trans_revoke_block(Begin("cont", 0), h, b))
    /\ UNCHANGED <<rvars, tvars>>

\* jbd_trans_try_revoke_block
jbd_trans_try_revoke_block(S, h, b) ==
    LET rec == jbd_trans_block_rec_lookup(S.journal, b)
    IN  IF rec # NoRec /\ rec.trans # h
        THEN LET S1 == IF rec.buf THEN ext4_block_flush_buf(S, b) ELSE S
             IN  IF S1.jst # "on" THEN S1 ELSE jbd_trans_revoke_block(S1, h, b)
        ELSE S

TryRevokeBlock(h, b, ub) ==
    /\ jst = "on"
    /\ trans[h].st = "new"
    /\ Len(trans[h].revoke_list) < MaxRevoke
    /\ Return(jbd_trans_try_revoke_block(Begin(ub, 0), h, b))
    /\ UNCHANGED <<rvars, tvars>>

\* jbd_journal_submit_trans
SubmitTrans(h) ==
    /\ jst = "on"
    /\ trans[h].st = "new"
    /\ Return([Begin("cont", 0) EXCEPT !.journal.trans_queue = Append(@, h),
                                       !.trans[h].st = "queued"])
    /\ UNCHANGED <<rvars, tvars>>

\* jbd_journal_commit_one
jbd_journal_commit_one(S) ==
    LET h == First(S.journal.trans_queue)
    IN  IF h = 0 THEN S
        ELSE jbd_journal_commit_trans([S EXCEPT !.journal.trans_queue = Tail(@)], h)

CommitOne(fail, ub) ==
    /\ jst = "on"
    /\ journal.trans_queue # << >>
    /\ journal.alloc_trans_id < MaxTid
    /\ fail = 0 \/ jh.nfail < MaxFail
    /\ Return(jbd_journal_commit_one(Begin(ub, fail)))
    /\ UNCHANGED <<rvars, tvars>>

\* jbd_journal_commit_all
RECURSIVE jbd_journal_commit_all(_)
jbd_journal_commit_all(S) ==
    IF S.journal.trans_queue = << >> \/ S.jst # "on" THEN S
    ELSE jbd_journal_commit_all(jbd_journal_commit_one(S))

\* jbd_journal_stop from the end of jbd_journal_flush_all_trans; the session is
\* not followed further once the stop has returned an error
JournalStopSb(S, sbfail) ==
    IF S.jst # "on" THEN S
    ELSE IF sbfail THEN [S EXCEPT !.fs.recover = FALSE, !.jh.rc = EIO, !.jst = "stoperr"]
    ELSE SyncJournalSb(jbd_journal_write_sb(
             [S EXCEPT !.fs = ext4_sb_write([@ EXCEPT !.recover = FALSE]),
                       !.journal.start = 0,
                       !.journal.trans_id = 0,
                       !.jh.rc = EOK,
                       !.jst = "stopped"]))

\* jbd_journal_stop; sbfail: ext4_sb_write fails
jbd_journal_stop(S, sbfail) ==
    JournalStopSb(jbd_journal_flush_all_trans(jbd_journal_commit_all(S)), sbfail)

JournalStop(ub, sbfail) ==
    /\ jst = "on"
    /\ journal.alloc_trans_id + Len(journal.trans_queue) <= MaxTid
    /\ sbfail => jh.nfail < MaxFail
    /\ Return(jbd_journal_stop(Begin(ub, 0), sbfail))
    /\ UNCHANGED <<rvars, tvars>>

\* the block cache writes back a dirty buffer nobody holds a reference on
CacheFlush(b, ub) ==
    /\ jst = "on"
    /\ cache[b].dirty
    /\ ~cache[b].jref
    /\ Return(ext4_block_flush_buf(Begin(ub, 0), b))
    /\ UNCHANGED <<rvars, tvars>>

\* the dirty bit of a journalled buffer is cleared by other means before the commit
\* of its transaction
ClearDirty(b) ==
    /\ jst = "on"
    /\ cache[b].dirty
    /\ cache[b].end_write
    /\ trans[cache[b].arg].st \in {"new", "queued"}
    /\ jh.nclear < MaxClear
    /\ Return([Begin("cont", 0) EXCEPT !.cache[b].dirty = FALSE, !.jh.nclear = @ + 1])
    /\ UNCHANGED <<rvars, tvars>>

\* a log without records, blocks in place that were never written
CleanLog(maxlen) ==
    [log |-> [k \in JFirst .. maxlen - 1 |-> DataBlock(0)],
     disk |-> [b \in Lbas |-> DataBlock(0)]]

\* a clean journal of log blocks first .. maxlen - 1 before jbd_journal_start, with
\* the log area and the blocks in place of d, the block cache c and journal blocks of
\* bs bytes
JournalInitCache(d, maxlen, c, bs) ==
    /\ log = d.log
    /\ jbd_fs = [sb |-> [start |-> 0, sequence |-> Seq0, first |-> JFirst,
                         maxlen |-> maxlen, blocksize |-> bs],
                 dirty |-> FALSE,
                 disk |-> [start |-> 0, sequence |-> Seq0]]
    /\ fs = [recover |-> FALSE, body |-> DataBlock(0),
             disk |-> [recover |-> FALSE, body |-> DataBlock(0)]]
    /\ plan = [op |-> "none", pass |-> ACTION_SCAN, at |-> 0]
    /\ cache = c
    /\ disk = d.disk
    /\ rpc = "idle"
    /\ it = IterInit([start |-> 0, sequence |-> 0], ACTION_SCAN)
    /\ info = [start_trans_id |-> 0, last_trans_id |-> 0, this_trans_id |-> 0,
               revoke |-> NoRevoke]
    /\ rret = EOK
    /\ hist = NoHist
    /\ journal = Journal0
    /\ trans = [h \in 1 .. MaxTrans |-> Trans0]
    /\ jst = "off"
    /\ jh = NoJh

\* the block cache holds no dirty buffer
JournalInit(maxlen) ==
    JournalInitCache(CleanLog(maxlen), maxlen, [b \in Lbas |-> Buf0], BlockSize)

\* the journal before jbd_journal_start, no block tag under test
JInitOf(maxlen) == JournalInit(maxlen) /\ tagio = NoTagIo

\* the calls of the journal API and the write-back of the block cache;
\* GetErrs: the calls of jbd_block_get_noread that may fail in a commit,
\* SbErrs: whether ext4_sb_write may fail
ApiNext(GetErrs, SbErrs) ==
    \/ \E sbfail \in SbErrs : JournalStart(sbfail)
    \/ \E h \in 1 .. MaxTrans : NewTrans(h)
    \/ \E h \in 1 .. MaxTrans, b \in Lbas, ub \in UbOutcomes : GetAccess(h, b, ub)
    \/ \E h \in 1 .. MaxTrans, b \in Lbas, ub \in UbOutcomes : SetBlockDirty(h, b, ub)
    \/ \E h \in 1 .. MaxTrans, b \in Lbas : TransRevokeBlock(h, b)
    \/ \E h \in 1 .. MaxTrans, b \in Lbas, ub \in UbOutcomes : TryRevokeBlock(h, b, ub)
    \/ \E h \in 1 .. MaxTrans : SubmitTrans(h)
    \/ \E fail \in GetErrs, ub \in UbOutcomes : CommitOne(fail, ub)
    \/ \E ub \in UbOutcomes, sbfail \in SbErrs : JournalStop(ub, sbfail)
    \/ \E b \in Lbas, ub \in UbOutcomes : CacheFlush(b, ub)

JInit == JInitOf(JMaxLen)

\* a log of the smallest size with I/O errors at every point of a commit
JNext == ApiNext(0 .. NumLba + 3, BOOLEAN)

SpecJournal == JInit /\ [][JNext]_vars

\* the same log with dirty bits cleared behind the back of the journal
CNext ==
    \/ ApiNext(0 .. 1, {FALSE})
    \/ \E b \in Lbas : ClearDirty(b)

SpecCleared == JInit /\ [][CNext]_vars

WInit == JInitOf(JWideLen)

\* a log that holds two transactions, without I/O errors
WNext == ApiNext({0}, {FALSE})

SpecWide == WInit /\ [][WNext]_vars

\* a buffer that jbd_replay_block_tags filled and marked dirty; it has no callback
ReplayedBuf == [Buf0 EXCEPT !.data = DataBlock(1), !.dirty = TRUE]

\* the journal starts after a replay that left buffers in a write-back cache
DInit ==
    /\ tagio = NoTagIo
    /\ \E c \in [Lbas -> {Buf0, ReplayedBuf}] : JournalInitCache(CleanLog(JMaxLen), JMaxLen, c, BlockSize)

SpecReplayed == DInit /\ [][WNext]_vars

\* a journal whose descriptor blocks have room for one tag
NInit ==
    /\ tagio = NoTagIo
    /\ JournalInitCache(CleanLog(JWideLen), JWideLen, [b \in Lbas |-> Buf0],
                        NarrowBlockSize)

SpecNarrow == NInit /\ [][WNext]_vars

(***************************************************************************)
(* A crash of the running journal, then jbd_recover over what is on disk.  *)
(***************************************************************************)
\* the machine stops: the memory is lost, the journal superblock, the filesystem
\* superblock, the log and the blocks in place are as they were last written;
\* hist.expect: the buffers of committed transactions that wait for their write in place
Crash ==
    /\ jst = "on"
    /\ rpc = "idle"
    /\ jst' = "crashed"
    /\ journal' = Journal0
    /\ trans' = [h \in 1 .. MaxTrans |-> Trans0]
    /\ jh' = NoJh
    /\ cache' = [b \in Lbas |-> Buf0]
    /\ jbd_fs' = [jbd_fs EXCEPT !.sb.start = jbd_fs.disk.start,
                                !.sb.sequence = jbd_fs.disk.sequence,
                                !.dirty = FALSE]
    /\ fs' = [recover |-> fs.disk.recover, body |-> fs.disk.body, disk |-> fs.disk]
    /\ hist' = [NoHist EXCEPT
                  !.expect = {[lba |-> b, data |-> cache[b].data] :
                                 b \in {x \in Lbas : /\ cache[x].end_write
                                                     /\ trans[cache[x].arg].st = "cp"}}]
    /\ UNCHANGED <<log, disk, rpc, it, info, rret, plan, tvars>>

\* a journal that is started on a clean log area, or on the log an earlier session
\* left: it committed one transaction, wrote its buffer in place and stopped, and
\* jbd_journal_stop leaves the records in the log
XInit ==
    /\ tagio = NoTagIo
    /\ \E d \in {CleanLog(JWideLen),
                  [log |-> Layout(<<DescBlock(1, <<Tag(1, TRUE, TRUE)>>), DataBlock(1),
                                    CommitBlock(1)>>, JFirst, JWideLen, JFirst),
                   disk |-> [b \in Lbas |-> DataBlock(IF b = 1 THEN 1 ELSE 0)]]} :
          JournalInitCache(d, JWideLen, [b \in Lbas |-> Buf0], BlockSize)

SpecCrash == XInit /\ [][WNext \/ Crash \/ RNext]_vars

(***************************************************************************)
(* Claims about the running journal.                                       *)
(***************************************************************************)
\* C1: write-ahead ordering. Every in-place write of a cache buffer that a handler
\* performs finds the buffer either outside every transaction or in the buffer list
\* of a transaction whose commit block is in the log (a transaction on the
\* checkpoint queue); this covers the flush done by get_access(T2, B).
C1_WriteAheadOrdering == \A w \in jh.inplace : w.st \in {"cp", "none"}

\* C8: the log never overflows. No call of alloc_block hands out a log block that
\* belongs to a checkpoint transaction with unwritten buffers or that the
\* transaction being committed was already given.
C8_LogNeverOverflows == ~jh.overflow

\* C9: between the operations of a running session journal.start and journal.last
\* lie in [first, maxlen).
C9_StartLastInRing ==
    jst = "on" =>
        /\ journal.start \in jbd_fs.sb.first .. jbd_fs.sb.maxlen - 1
        /\ journal.last \in jbd_fs.sb.first .. jbd_fs.sb.maxlen - 1

\* C10: whenever journal.start = journal.last between two operations of a running
\* session the log is empty: the checkpoint queue is empty and no committed
\* transaction has a buffer whose in-place write is pending.
C10_StartEqLastEmpty ==
    (jst = "on" /\ journal.start = journal.last) =>
        /\ journal.cp_queue = << >>
        /\ \A h \in 1 .. MaxTrans : trans[h].st = "cp" => trans[h].buf_list = << >>

\* the persisted journal superblock points at the first log block of transaction h
PersistedAt(h) ==
    /\ jbd_fs.disk.start = trans[h].start_iblock
    /\ jbd_fs.disk.sequence = trans[h].trans_id

\* position k of the checkpoint queue holds a transaction with a buffer whose
\* in-place write is pending
PendingAt(k) == trans[journal.cp_queue[k]].buf_list # << >>

\* the start on disk has not passed any checkpoint transaction with a pending buffer:
\* it is the first block of that transaction or of one before it in the queue
StartBehindPending ==
    jst = "on" =>
        \A k \in 1 .. Len(journal.cp_queue) :
            PendingAt(k) => \E i \in 1 .. k : PersistedAt(journal.cp_queue[i])

\* a step inside a running session that changes journal.start
StartChanges == jst = "on" /\ jst' = "on" /\ journal.start' # journal.start

StopReturnedOk == jst = "stopped" /\ jh.rc = EOK

\* no transaction is left submitted or committed, no buffer waits for a checkpoint
AllCheckpointed ==
    /\ \A h \in 1 .. MaxTrans : trans[h].st \in {"free", "new"}
    /\ \A b \in Lbas : cache[b].end_write => trans[cache[b].arg].st = "new"

\* C12: when jbd_journal_stop returns EOK both queues are empty, every submitted
\* transaction was committed and checkpointed or aborted, FINCOM_RECOVER is clear in
\* the filesystem superblock on disk and the journal superblock on disk has start = 0.
C12_CleanShutdown ==
    StopReturnedOk =>
        /\ journal.trans_queue = << >>
        /\ journal.cp_queue = << >>
        /\ AllCheckpointed
        /\ ~fs.disk.recover
        /\ jbd_fs.disk.start = 0

\* a stop that had buffers to write in place before it could return
C12_Witness == StopReturnedOk /\ jh.inplace # {}

\* C13: from every reachable state of the journal, the states where the dirty bit of
\* a journalled buffer was cleared before the commit included, the loop of
\* jbd_journal_flush_all_trans ends with an empty checkpoint queue and
\* jbd_journal_stop returns: the loop never reaches a turn that leaves the head
\* of the checkpoint queue as it found it.
C13_CheckpointCompletes == jst # "hung"

\* what jbd_journal_start leaves behind when it returns EOK
StartPost ==
    /\ fs.disk.recover
    /\ journal.first = jbd_fs.sb.first
    /\ journal.start = journal.first
    /\ journal.last = journal.first
    /\ journal.trans_id = 1
    /\ journal.alloc_trans_id = 1
    /\ journal.trans_queue = << >>
    /\ journal.cp_queue = << >>
    /\ journal.block_rec = {}
    /\ jbd_fs.disk.start = journal.first
    /\ jbd_fs.disk.sequence = 1

\* C14: when jbd_journal_start returns EOK, FINCOM_RECOVER is set in the filesystem
\* superblock on disk, first = sb.first, start = last = first, trans_id =
\* alloc_trans_id = 1, the two queues and the block-record index are empty and the
\* journal superblock on disk has start = first and sequence = 1; when the write of
\* the filesystem superblock fails the error is returned and the journal superblock
\* is not written.
C14_JournalStartPost ==
    [][jst = "off" =>
         \/ jh'.rc = EOK /\ jst' = "on" /\ StartPost'
         \/ jh'.rc # EOK /\ jst' = "off" /\ ~fs'.disk.recover /\ jbd_fs' = jbd_fs]_vars

\* a session that started at the second attempt, the first one having failed
C14_Witness ==
    /\ jst = "on"
    /\ jh.rc = EOK
    /\ jh.nfail = 1
    /\ StartPost
    /\ \A h \in 1 .. MaxTrans : trans[h].st = "free"

\* a step in which jbd_journal_commit_one took the head of the transaction queue
\* and jbd_journal_commit_trans returned an error for it
CommitFailed ==
    /\ jst = "on"
    /\ jst' = "on"
    /\ journal.trans_queue # << >>
    /\ journal'.trans_queue = Tail(journal.trans_queue)
    /\ jh'.rc # EOK

\* nothing of transaction h is left in the journal S
RolledBack(J, C, h) ==
    /\ \A i \in 1 .. Len(J.trans_queue) : J.trans_queue[i] # h
    /\ \A i \in 1 .. Len(J.cp_queue) : J.cp_queue[i] # h
    /\ \A b \in Lbas : ~(C[b].end_write /\ C[b].arg = h)
    /\ \A r \in J.block_rec : r.trans # h

\* C15: whenever jbd_journal_commit_trans returns an error, journal.last has its
\* value at entry, alloc_trans_id is unchanged, the transaction is on neither queue,
\* no cache buffer carries the end-write callback for it and no block record owned
\* by it remains in the index.
C15_FailedCommitRollsBack ==
    [][CommitFailed =>
         /\ journal'.last = journal.last
         /\ journal'.alloc_trans_id = journal.alloc_trans_id
         /\ RolledBack(journal', cache', Head(journal.trans_queue))]_vars

\* a step in which jbd_journal_commit_one committed a transaction with revoke
\* entries and no data buffer, and jbd_journal_commit_trans returned EOK
PureRevokeCommit ==
    /\ jst = "on"
    /\ jst' = "on"
    /\ journal.trans_queue # << >>
    /\ journal'.trans_queue = Tail(journal.trans_queue)
    /\ trans[Head(journal.trans_queue)].data_cnt = 0
    /\ trans[Head(journal.trans_queue)].buf_list = << >>
    /\ trans[Head(journal.trans_queue)].revoke_list # << >>
    /\ jh'.rc = EOK

\* journal.start and journal.trans_id are past the transaction just committed
PastCommitted ==
    /\ journal'.start = journal'.last
    /\ journal'.trans_id = journal.alloc_trans_id + 1

\* C16 as stated: in every state of the journal the commit of a pure-revoke
\* transaction does not extend the checkpoint queue, moves journal.start and
\* journal.trans_id past the log blocks of the transaction, and the journal
\* superblock on disk carries the new values.
C16_PureRevokePersisted ==
    [][PureRevokeCommit =>
         /\ Len(journal'.cp_queue) <= Len(journal.cp_queue)
         /\ PastCommitted
         /\ jbd_fs'.disk.start = journal'.start
         /\ jbd_fs'.disk.sequence = journal'.trans_id]_vars

\* C16 amended: a pure-revoke transaction committed while the checkpoint queue is
\* empty does not enter it, journal.start and journal.trans_id move past its log
\* blocks, and the journal superblock in memory carries the new values and is
\* marked dirty (it is not written to disk by the commit). Committed while the
\* checkpoint queue is not empty it is appended to that queue and journal.start
\* and journal.trans_id stay as they were.
C16_PureRevokeCommit ==
    [][PureRevokeCommit =>
         IF journal'.cp_queue = << >>
         THEN /\ PastCommitted
              /\ jbd_fs'.sb.start = journal'.start
              /\ jbd_fs'.sb.sequence = journal'.trans_id
              /\ jbd_fs'.dirty
              /\ trans'[Head(journal.trans_queue)].st = "free"
         ELSE /\ journal'.cp_queue =
                     Append(journal.cp_queue, Head(journal.trans_queue))
              /\ journal'.start = journal.start
              /\ journal'.trans_id = journal.trans_id]_vars

\* a pure-revoke transaction was committed into an empty checkpoint queue and the
\* start in memory is ahead of the start on disk
C16_Witness ==
    /\ jst = "on"
    /\ jh.rc = EOK
    /\ journal.cp_queue = << >>
    /\ journal.trans_id = journal.alloc_trans_id
    /\ journal.trans_id > 1
    /\ journal.start = journal.last
    /\ jbd_fs.dirty
    /\ jbd_fs.disk.start # journal.start

\* the buffer of LBA b was dirtied by transaction t, which is on the checkpoint queue
CommittedDirty(b, t) ==
    /\ cache[b].dirty
    /\ cache[b].end_write
    /\ cache[b].arg = t
    /\ trans[t].st = "cp"

\* the journal after jbd_trans_get_access(h, b) in the current state
AfterGetAccess(h, b) == jbd_trans_get_access(Begin("cont", 0), h, b)

\* the journal after jbd_trans_get_access(h, b) and jbd_trans_set_block_dirty(h, b)
AfterGetAccessAndDirty(h, b) == jbd_trans_set_block_dirty(AfterGetAccess(h, b), h, b)

\* get_access flushed the buffer of b, which t had dirtied
FlushedFor(S1, b, t) ==
    /\ b \in {w.lba : w \in S1.jh.inplace}
    /\ ~S1.cache[b].end_write
    /\ ~S1.cache[b].dirty
    /\ \/ S1.trans[t].written_cnt = trans[t].written_cnt + 1
       \/ S1.trans[t].st = "free"

\* LBA b has exactly one block record in the journal J and h owns it
SingleRecOwnedBy(J, b, h) ==
    /\ Cardinality({r \in J.block_rec : r.lba = b}) = 1
    /\ \A r \in J.block_rec : r.lba = b => r.trans = h

\* C17: with T1 on the checkpoint queue and the buffer of B dirtied by T1,
\* get_access(T2, B) of another transaction T2 writes the buffer in place before it
\* returns (no callback left, T1.written_cnt incremented), and after the following
\* set_block_dirty(T2, B) the single block record of B is owned by T2;
\* get_access(T, B) on a block dirtied by T itself writes nothing.
C17_CrossTransAccess ==
    jst = "on" =>
        \A h \in 1 .. MaxTrans, b \in Lbas :
            trans[h].st = "new" =>
                /\ \A t \in (1 .. MaxTrans) \ {h} :
                       CommittedDirty(b, t) =>
                           /\ AfterGetAccess(h, b).jst = "on"
                           /\ FlushedFor(AfterGetAccess(h, b), b, t)
                           /\ SingleRecOwnedBy(AfterGetAccessAndDirty(h, b).journal, b, h)
                /\ (cache[b].end_write /\ cache[b].arg = h) =>
                       /\ AfterGetAccess(h, b).jh.inplace = {}
                       /\ AfterGetAccess(h, b).disk = disk
                       /\ AfterGetAccess(h, b).cache = cache

\* T2 is open while T1, on the checkpoint queue, still holds the dirty buffer of an
\* LBA, and T2 holds a dirty buffer of its own
C17_Witness ==
    /\ jst = "on"
    /\ \E h \in 1 .. MaxTrans, b \in Lbas, t \in 1 .. MaxTrans :
           /\ t # h
           /\ trans[h].st = "new"
           /\ CommittedDirty(b, t)
           /\ FlushedFor(AfterGetAccess(h, b), b, t)
           /\ \E c \in Lbas : cache[c].end_write /\ cache[c].arg = h

\* the transactions that have the buffer of LBA b in their buffer list
Holders(b) ==
    {h \in 1 .. MaxTrans : \E i \in 1 .. Len(trans[h].buf_list) : trans[h].buf_list[i] = b}

\* C18: in every reachable state a block is in the buffer list of at most one
\* transaction (and once in that list), so that two uncommitted transactions never
\* both hold a modification of the same block. The calls of set_block_dirty that
\* follow a get_access of the same transaction are among the calls enumerated.
C18_SingleHolder ==
    \A b \in Lbas :
        /\ Cardinality(Holders(b)) <= 1
        /\ \A h \in Holders(b) :
               Cardinality({i \in 1 .. Len(trans[h].buf_list) : trans[h].buf_list[i] = b}) = 1

\* an open transaction holds a block that was written in place for an earlier
\* transaction, while a committed transaction is still on the checkpoint queue
C18_Witness ==
    /\ jst = "on"
    /\ journal.cp_queue # << >>
    /\ \E h \in 1 .. MaxTrans, b \in Lbas :
           /\ trans[h].st = "new"
           /\ h \in Holders(b)
           /\ disk[b] = DataBlock(1)

\* C19: in every reachable state the block-record index holds at most one record
\* per LBA, whatever the order of set_block_dirty, commits, aborts and write
\* completions.
C19_OneRecordPerLba ==
    \A r1 \in journal.block_rec, r2 \in journal.block_rec : r1.lba = r2.lba => r1 = r2

\* set_block_dirty found the record of the LBA in the index and gave it to the
\* calling transaction instead of inserting a second one
C19_Witness ==
    /\ jst = "on"
    /\ jh.takeover
    /\ \E b \in Lbas : cache[b].end_write /\ SingleRecOwnedBy(journal, b, cache[b].arg)

\* C20: in every reachable state the trans_id of the transactions of the checkpoint
\* queue does not decrease from the head to the tail.
C20_CpQueueOrdered ==
    \A i \in 1 .. Len(journal.cp_queue), j \in 1 .. Len(journal.cp_queue) :
        i < j => trans[journal.cp_queue[i]].trans_id <= trans[journal.cp_queue[j]].trans_id

\* two committed transactions wait on the checkpoint queue
C20_Witness ==
    /\ jst = "on"
    /\ Len(journal.cp_queue) >= 2
    /\ trans[journal.cp_queue[1]].trans_id < trans[journal.cp_queue[2]].trans_id

\* the transactions on the checkpoint queue
OnCpQueue(J) == {J.cp_queue[i] : i \in 1 .. Len(J.cp_queue)}

\* the buffers of transaction h whose in-place write completes in this step
WrittenNow(h) ==
    {i \in 1 .. Len(trans[h].buf_list) :
        \E w \in jh'.inplace : w.lba = trans[h].buf_list[i]}

\* written_cnt never exceeds data_cnt on the checkpoint queue
WrittenLeData ==
    \A h \in OnCpQueue(journal) : trans[h].written_cnt <= trans[h].data_cnt

\* C21 as stated: on the checkpoint queue written_cnt <= data_cnt, and a transaction
\* leaves the queue exactly when its written_cnt becomes equal to its data_cnt, so
\* that no transaction with written_cnt = data_cnt is on the queue.
C21_RemovedWhenEqual ==
    /\ WrittenLeData
    /\ \A h \in OnCpQueue(journal) : trans[h].written_cnt # trans[h].data_cnt

\* a step that takes transaction h off the checkpoint queue
LeavesCpQueue(h) == h \in OnCpQueue(journal) /\ h \notin OnCpQueue(journal')

\* C21 amended: on the checkpoint queue written_cnt <= data_cnt; a transaction with
\* data buffers is on the queue only while written_cnt < data_cnt and leaves it in
\* the step in which the last of its data_cnt write completions arrives; a
\* pure-revoke transaction (data_cnt = 0) is on the queue with written_cnt =
\* data_cnt = 0 and leaves it when it is drained from the head.
C21_WrittenVsData ==
    /\ []WrittenLeData
    /\ [](\A h \in OnCpQueue(journal) :
              trans[h].data_cnt # 0 => trans[h].written_cnt < trans[h].data_cnt)
    /\ [][\A h \in 1 .. MaxTrans :
              LeavesCpQueue(h) =>
                  \/ trans[h].data_cnt = 0
                  \/ trans[h].written_cnt + Cardinality(WrittenNow(h))
                         = trans[h].data_cnt]_vars

\* a transaction on the checkpoint queue with one of two buffers written in place
C21_Witness ==
    /\ jst = "on"
    /\ \E h \in OnCpQueue(journal) :
           /\ trans[h].written_cnt = 1
           /\ trans[h].data_cnt = 2

\* the sum of data_cnt - written_cnt over a set of transactions
RECURSIVE Outstanding(_)
Outstanding(hs) ==
    IF hs = {} THEN 0
    ELSE LET h == CHOOSE x \in hs : TRUE
         IN  trans[h].data_cnt - trans[h].written_cnt + Outstanding(hs \ {h})

\* the cache buffers with the end-write callback of the journal installed, for the
\* transactions hs
WithCallback(hs) == {b \in Lbas : cache[b].end_write /\ cache[b].arg \in hs}

\* the transactions that are open, submitted or committed
LiveTrans == {h \in 1 .. MaxTrans : trans[h].st # "free"}

\* C22 as stated: the sum of data_cnt - written_cnt over the checkpoint queue is at
\* least the number of cache buffers that have the end-write callback installed.
C22_CpSumCoversCallbacks ==
    jst = "on" =>
        Outstanding(OnCpQueue(journal)) >= Cardinality(WithCallback(1 .. MaxTrans))

\* C22 amended: the sum of data_cnt - written_cnt over the checkpoint queue is at
\* least the number of cache buffers whose end-write callback points to a
\* transaction of that queue, and the sum over all transactions of the journal
\* (open, submitted, committed) is at least the number of all cache buffers with the
\* callback installed.
C22_OutstandingCoversCallbacks ==
    jst = "on" =>
        /\ Outstanding(OnCpQueue(journal))
               >= Cardinality(WithCallback(OnCpQueue(journal)))
        /\ Outstanding(LiveTrans) >= Cardinality(WithCallback(1 .. MaxTrans))
        /\ WithCallback(1 .. MaxTrans) = WithCallback(LiveTrans)

\* a committed transaction waits for a write while an open one holds a buffer too
C22_Witness ==
    /\ jst = "on"
    /\ WithCallback(OnCpQueue(journal)) # {}
    /\ WithCallback(LiveTrans \ OnCpQueue(journal)) # {}

(***************************************************************************)
(* Block tags.  A 64-bit block number is kept as its two 32-bit halves;    *)
(* the flags field is the set of the flags that are set in it.             *)
(***************************************************************************)
\* sizeof(struct jbd_block_tag)
SizeofTag == 12
\* sizeof(struct jbd_block_tag3)
SizeofTag3 == 16

\* the incompat features of the journal superblock that the tag codec reads
Features == SUBSET {"64BIT", "CSUM_V2", "CSUM_V3"}

Block64(hi, lo) == [hi |-> hi, lo |-> lo]

\* jbd_tag_bytes: the size of a tag without its UUID part
jbd_tag_bytes(F) ==
    IF "CSUM_V3" \in F THEN SizeofTag3
    ELSE IF "64BIT" \in F
    THEN SizeofTag + (IF "CSUM_V2" \in F THEN 2 ELSE 0)
    ELSE SizeofTag + (IF "CSUM_V2" \in F THEN 2 ELSE 0) - 4

\* struct tag_info before the codec filled it
TagInfo(block, uuid_exist, uuid, last_tag) ==
    [tag_bytes |-> 0, block |-> block, uuid_exist |-> uuid_exist, uuid |-> uuid,
     last_tag |-> last_tag]

\* the memory a tag is written to: whatever the descriptor block held before
TagBuf(word, flags, uuid) ==
    [blocknr |-> word, blocknr_high |-> word, flags |-> flags, uuid |-> uuid]

TagZeroFill_none(buf) == buf

\* memset(tag, 0, sizeof(*tag))
TagZeroFill(buf) == [buf EXCEPT !.blocknr = 0, !.blocknr_high = 0, !.flags = {}]

\* the UUID part starts at tag + tag_bytes: with 4-byte block numbers and the short
\* tag that is where the struct has blocknr_high
TagPutUuid(F, buf, uuid) ==
    IF jbd_tag_bytes(F) < SizeofTag /\ "CSUM_V3" \notin F
    THEN [buf EXCEPT !.uuid = uuid, !.blocknr_high = uuid]
    ELSE [buf EXCEPT !.uuid = uuid]

\* the result of a codec call: return code, tag buffer, tag_info
TagRes(rc, buf, ti) == [rc |-> rc, buf |-> buf, ti |-> ti]

\* jbd_write_block_tag from the flags on: SAME_UUID or the UUID part, LAST_TAG
TagWriteFlags(F, buf, remain, ti) ==
    IF ti.uuid_exist /\ remain - jbd_tag_bytes(F) < UUID_SIZE
    THEN TagRes(EINVAL, buf, ti)
    ELSE TagRes(EOK,
                [(IF ti.uuid_exist THEN TagPutUuid(F, buf, ti.uuid)
                  ELSE [buf EXCEPT !.flags = @ \cup {"SAME_UUID"}])
                    EXCEPT !.flags = @ \cup (IF ti.last_tag THEN {"LAST_TAG"} ELSE {})],
                [ti EXCEPT !.tag_bytes = @ + (IF ti.uuid_exist THEN UUID_SIZE ELSE 0)])

\* jbd_write_block_tag (the two layouts differ in the width of the flags field)
jbd_write_block_tag(F, buf, remain, ti) ==
    IF remain - jbd_tag_bytes(F) < 0
    THEN TagRes(EINVAL, buf, [ti EXCEPT !.tag_bytes = jbd_tag_bytes(F)])
    ELSE TagWriteFlags(F,
             [TagZeroFill(buf) EXCEPT
                 !.blocknr = ti.block.lo,
                 !.blocknr_high = IF "64BIT" \in F THEN ti.block.hi ELSE 0],
             remain, [ti EXCEPT !.tag_bytes = jbd_tag_bytes(F)])

\* tag_info->block as jbd_extract_block_tag reads it
TagBlock(F, buf) ==
    IF "ESCAPE" \in buf.flags THEN Block64(0, 0)
    ELSE Block64(IF "64BIT" \in F THEN buf.blocknr_high ELSE 0, buf.blocknr)

\* jbd_extract_block_tag; the uuid of the tag_info is written only with a UUID part
jbd_extract_block_tag(F, buf, tag_bytes, remain) ==
    IF remain - tag_bytes < 0
    THEN TagRes(EINVAL, buf, [TagInfo(Block64(0, 0), FALSE, "unset", FALSE)
                                 EXCEPT !.tag_bytes = tag_bytes])
    ELSE IF "SAME_UUID" \notin buf.flags /\ remain - tag_bytes < UUID_SIZE
    THEN TagRes(EINVAL, buf, [TagInfo(TagBlock(F, buf), FALSE, "unset", FALSE)
                                 EXCEPT !.tag_bytes = tag_bytes])
    ELSE TagRes(EOK, buf,
                [TagInfo(TagBlock(F, buf),
                         "SAME_UUID" \notin buf.flags,
                         IF "SAME_UUID" \notin buf.flags THEN buf.uuid ELSE "unset",
                         "LAST_TAG" \in buf.flags)
                    EXCEPT !.tag_bytes = tag_bytes
                               + (IF "SAME_UUID" \notin buf.flags THEN UUID_SIZE ELSE 0)])

\* the halves of the block numbers, the UUIDs and the buffer sizes that are tried
TagWords == {0, 5}
TagUuids == {"u1", "u2"}
TagRemains == {7, 8, 12, 16, 24, 31, 32, 40}
TagBufs == {TagBuf(0, {}, "zero"),
            TagBuf(9, {"ESCAPE", "SAME_UUID", "DELETED", "LAST_TAG"}, "junk")}

TInit ==
    /\ JournalInit(JMaxLen)
    /\ \E F \in Features, hi \in TagWords, lo \in TagWords, ue \in BOOLEAN,
          u \in TagUuids, last \in BOOLEAN, remain \in TagRemains, buf \in TagBufs :
          tagio = [st |-> "in", F |-> F, remain |-> remain, buf |-> buf,
                   ti |-> TagInfo(Block64(hi, lo), ue, u, last)]

\* jbd_write_block_tag on the tag_info under test
WriteBlockTag ==
    /\ tagio.st = "in"
    /\ tagio' = [st |-> "written", F |-> tagio.F, remain |-> tagio.remain,
                 ti |-> tagio.ti,
                 w |-> jbd_write_block_tag(tagio.F, tagio.buf, tagio.remain, tagio.ti)]
    /\ UNCHANGED <<log, jbd_fs, fs, cache, disk, rvars, jvars>>

\* jbd_extract_block_tag on the tag that was written
ExtractBlockTag ==
    /\ tagio.st = "written"
    /\ tagio.w.rc = EOK
    /\ tagio' = [st |-> "extracted", F |-> tagio.F, remain |-> tagio.remain,
                 ti |-> tagio.ti, w |-> tagio.w,
                 x |-> jbd_extract_block_tag(tagio.F, tagio.w.buf,
                                             jbd_tag_bytes(tagio.F), tagio.remain)]
    /\ UNCHANGED <<log, jbd_fs, fs, cache, disk, rvars, jvars>>

TNext == WriteBlockTag \/ ExtractBlockTag

SpecTag == TInit /\ [][TNext]_vars

\* what comes back equals what was written, the block number apart
TagSameButBlock ==
    /\ tagio.x.rc = EOK
    /\ tagio.x.ti.uuid_exist = tagio.ti.uuid_exist
    /\ tagio.ti.uuid_exist => tagio.x.ti.uuid = tagio.ti.uuid
    /\ tagio.x.ti.last_tag = tagio.ti.last_tag
    /\ tagio.x.ti.tag_bytes = tagio.w.ti.tag_bytes

\* C23 as stated: for every feature combination and every tag_info that
\* jbd_write_block_tag found room for, jbd_extract_block_tag returns the same block
\* number, uuid_exist, uuid, last_tag and tag_bytes.
C23_TagRoundTripAll ==
    tagio.st = "extracted" =>
        /\ TagSameButBlock
        /\ tagio.x.ti.block = tagio.ti.block

\* C23 amended: the round trip returns the same uuid_exist, uuid (when there is a
\* UUID part), last_tag and tag_bytes; it returns the same block number when 64BIT
\* is set or the block number is below 2^32, and the low 32 bits of the block
\* number otherwise.
C23_TagRoundTrip ==
    tagio.st = "extracted" =>
        /\ TagSameButBlock
        /\ tagio.x.ti.block =
               IF "64BIT" \in tagio.F THEN tagio.ti.block
               ELSE Block64(0, tagio.ti.block.lo)

\* a tag with a UUID part, LAST_TAG and a block number above 2^32 came back from a
\* buffer that was not clean
C23_Witness ==
    /\ tagio.st = "extracted"
    /\ tagio.x.rc = EOK
    /\ "64BIT" \in tagio.F
    /\ tagio.ti.block.hi # 0
    /\ tagio.ti.uuid_exist
    /\ tagio.ti.last_tag
    /\ tagio.x.ti.block = tagio.ti.block

\* C24: in every pass of jbd_iterate_log every journal block that is read, the log
\* records and the data blocks that follow a descriptor block, has an index in
\* [first, maxlen): the iteration goes round the ring from maxlen - 1 to first.
C24_ReadsInRing ==
    \A r \in hist.reads : r.blk \in jbd_fs.sb.first .. jbd_fs.sb.maxlen - 1

(***************************************************************************)
(* The order of the writes of one commit.                                  *)
(***************************************************************************)
\* the last jbd_journal_commit_trans of the handler wrote its commit block and returned EOK
CommitSucceeded == jst = "on" /\ jh.commit = "done" /\ jh.rc = EOK

\* C25: in jbd_journal_commit_trans no descriptor, data or revoke block is written to
\* the log once the commit block of the commit is written, and a commit that met an
\* empty checkpoint queue does not write the journal superblock to the disk before
\* its commit block.
C25_CommitOrdering == ~jh.late /\ ~jh.early

\* a transaction with data and revoke records committed on an empty checkpoint queue:
\* its descriptor, revoke and commit block are in the log, the superblock on the
\* disk names it
C25_Witness ==
    /\ CommitSucceeded
    /\ jh.cpempty
    /\ \E h \in 1 .. MaxTrans :
          /\ trans[h].st = "cp"
          /\ trans[h].revoke_list # << >>
          /\ jbd_fs.disk = [start |-> trans[h].start_iblock,
                            sequence |-> trans[h].trans_id]
          /\ \A t \in {"desc", "revoke", "commit"} :
                \E b \in DOMAIN log : log[b].type = t /\ log[b].seq = trans[h].trans_id

(***************************************************************************)
(* The head of the checkpoint queue.                                       *)
(***************************************************************************)
\* the head of the checkpoint queue of a running journal
CpHead == trans[Head(journal.cp_queue)]

\* C26: between two journal operations the head of a non-empty checkpoint queue is a
\* transaction with data buffers, journal.start is its start_iblock and
\* journal.trans_id its trans_id; a pure-revoke transaction is never left at the head.
C26_CpHead ==
    (jst = "on" /\ journal.cp_queue # << >>) =>
        /\ CpHead.data_cnt # 0
        /\ CpHead.buf_list # << >>
        /\ journal.start = CpHead.start_iblock
        /\ journal.trans_id = CpHead.trans_id

(***************************************************************************)
(* jbd_trans_set_block_dirty on any buffer.                                *)
(***************************************************************************)
\* the state at the return of jbd_trans_set_block_dirty(h, b) called now
AfterSetBlockDirty(h, b) ==
    jbd_trans_set_block_dirty([Begin("cont", 0) EXCEPT !.cache[b].data = DataBlock(1)],
                              h, b)

\* the call journalled the buffer of b in the transaction h
JournalledBy(S1, h, b) ==
    /\ S1.cache[b].end_write
    /\ S1.cache[b].arg = h
    /\ S1.cache[b].dirty
    /\ Len(SelectSeq(S1.trans[h].buf_list, LAMBDA x : x = b)) = 1
    /\ S1.trans[h].data_cnt = trans[h].data_cnt + 1

\* the call left the journal, the transactions and the flags of the buffer alone
NothingChanged(S1, b) ==
    /\ S1.journal = journal
    /\ S1.trans = trans
    /\ S1.cache[b].end_write = cache[b].end_write
    /\ S1.cache[b].arg = cache[b].arg
    /\ S1.cache[b].dirty = cache[b].dirty

\* C27: jbd_trans_set_block_dirty(T, B) that returns on a buffer without the journal
\* callback creates the jbd_buf of T, installs the callback with it, marks the buffer
\* dirty, puts B in the buffer list of T and adds one to data_cnt; on a buffer that
\* carries the callback it changes nothing.
C27_SetBlockDirty ==
    \A h \in 1 .. MaxTrans, b \in Lbas :
        (jst = "on" /\ trans[h].st = "new") =>
            /\ (~cache[b].end_write /\ AfterSetBlockDirty(h, b).jst = "on")
                  => JournalledBy(AfterSetBlockDirty(h, b), h, b)
            /\ cache[b].end_write => NothingChanged(AfterSetBlockDirty(h, b), b)

(***************************************************************************)
(* The revoke index at the return of jbd_recover.                          *)
(***************************************************************************)
\* C28: at every return of jbd_recover, after a replay without error as after an
\* error in the SCAN, the REVOKE or the RECOVER pass, the revoke index holds no entry.
C28_RevokeIndexFreed == ReplayReturned => info.revoke = NoRevoke

(***************************************************************************)
(* JBD_FLAG_LAST_TAG in the descriptor blocks of a commit.                 *)
(***************************************************************************)
\* the descriptor blocks of the log
DescBlocks == {k \in DOMAIN log : log[k].type = "desc"}

\* C29: in every descriptor block that jbd_journal_prepare writes the last tag of the
\* block carries JBD_FLAG_LAST_TAG and no other tag of the block does, with the tags
\* of a transaction in several descriptor blocks and with buffers skipped because
\* they are no longer dirty.
C29_LastTagPerDescriptor ==
    \A k \in DescBlocks :
        \A i \in 1 .. Len(log[k].tags) : log[k].tags[i].last <=> i = Len(log[k].tags)

(***************************************************************************)
(* The life cycle of a transaction.                                        *)
(***************************************************************************)
\* C30: jbd_trans_end_write frees and dequeues only transactions that are committed:
\* a write completion never removes from the checkpoint queue, nor frees, a
\* transaction that is still being built or waits on the transaction queue.
C30_FreedOnlyCommitted == ~jh.badfree

(***************************************************************************)
(* The assertion of jbd_trans_insert_block_rec.                            *)
(***************************************************************************)
\* C34: whenever jbd_trans_set_block_dirty(T, B) finds a block record of B, the buffer
\* pointer of the record is nil, so ext4_assert(!block_rec->buf) never fails, also
\* after a commit that skipped a buffer whose dirty bit had been cleared.
C34_TakeoverAssertion == ~jh.assert

(***************************************************************************)
(* The length of a pass over the log.                                      *)
(***************************************************************************)
\* C33: for every content of the log each pass of jbd_iterate_log reads at most
\* maxlen - first log records: it ends when it is back at sb.start or at an
\* end-of-log signal.
C33_PassWithinOneLap ==
    \A p \in DOMAIN hist.nread : hist.nread[p] <= jbd_fs.sb.maxlen - jbd_fs.sb.first

(***************************************************************************)
(* The log the journal wrote, read back by jbd_recover after a crash.      *)
(***************************************************************************)
\* jbd_recover returned EOK on the journal that crashed
RecoveredAfterCrash == jst = "crashed" /\ rpc = "done" /\ rret = EOK

\* the content of block b once the dirty buffers of the replay are written back
ContentAfterReplay(b) == IF cache[b].dirty THEN cache[b].data ELSE disk[b]

\* C31: after a crash jbd_recover applies to every block with a journalled copy in a
\* committed transaction that was not yet written in place exactly that copy, also
\* when the blocks of the transaction wrap from maxlen to first.
C31_WriterReaderAgreement ==
    RecoveredAfterCrash =>
        \A e \in hist.expect :
            /\ \E a \in hist.applied : a.lba = e.lba
            /\ ContentAfterReplay(e.lba) = e.data

\* C32: after a crash with no committed transaction waiting for its write in place,
\* right after jbd_journal_start or after the last checkpoint, jbd_recover applies
\* no journalled copy and leaves every block as it was, whatever the log still holds.
C32_NoStaleReplay ==
    (jst = "crashed" /\ hist.expect = {}) =>
        /\ hist.applied = {}
        /\ \A b \in Lbas : ContentAfterReplay(b) = disk[b]

====
